---- MODULE Spec2Model ----
(***************************************************************************)
(* Aperture: the live list-reconciliation engine (LockerState,             *)
(* ControllerState, NexusState) that merges OS snapshots with navigation,  *)
(* filtering and sorting, the App that routes key presses and timer events *)
(* to the list states, the modal and the collaborators, and the loop of    *)
(* run_app that takes the events of the three timers from their channel.   *)
(*                                                                         *)
(* Conventions of the model                                                *)
(*   - A Rust String is a sequence of character codes (ASCII), so that     *)
(*     to_lowercase, contains and the byte-wise Ord are computed.          *)
(*     Enumerated texts that are only matched (service status, TCP state)  *)
(*     are TLA+ strings.                                                   *)
(*   - Option<T> is a sequence: None is << >>, Some(x) is <<x>>.           *)
(*   - f32/f64 metrics are naturals (no NaN arises: samples are clamped).  *)
(*   - Instant is a natural number of milliseconds.                        *)
(*   - DefaultHasher is modelled as collision-free on the modelled inputs: *)
(*     the hash of a snapshot is the sequence of the hashed fields, and    *)
(*     the initial value 0 is a value no snapshot hashes to.               *)
(***************************************************************************)
EXTENDS Integers, Sequences, FiniteSets, TLC

VARIABLES
    domain,            \* which of the three list states this instance is
    entities,          \* processes / services / connections
    list_state,        \* ratatui ListState.selected(): Option<usize>
    selected,          \* selected_pid / selected_service_name / selected_connection_key
    active_filter,     \* Option<String>, lowercased
    sort_key,
    sort_order,
    last_data_hash,
    is_initial_load,
    last_navigation,   \* Instant
    now,               \* the clock read by Instant::now() / elapsed()
    prev_cpu_times,    \* PREV_CPU_TIMES: pid -> Instant of the previous sample
    last,              \* history: the operation that produced this state
    hist,              \* history: facts about the run so far
    app,               \* the App: tab, modes, modal, status message, chord flag
    ui,                \* history: the last call of handle_key_event
    rt                 \* run_app: its position, the channel, and their history

\* the list state of one domain
list_vars == <<domain, entities, list_state, selected, active_filter, sort_key,
               sort_order, last_data_hash, is_initial_load, last_navigation, now,
               prev_cpu_times, last, hist>>

vars == <<domain, entities, list_state, selected, active_filter, sort_key,
          sort_order, last_data_hash, is_initial_load, last_navigation, now,
          prev_cpu_times, last, hist, app, ui, rt>>

(***************************************************************************)
(* Bounds of the model                                                     *)
(***************************************************************************)
MaxTime == 50
TimeStep == 50
BigLen == 12
MaxInput == 1
MaxSent == 3

(***************************************************************************)
(* Program constants                                                       *)
(***************************************************************************)
NAVIGATION_DEBOUNCE == 50
PageSize == 10
ChannelCapacity == 32

(***************************************************************************)
(* Option and String                                                       *)
(***************************************************************************)
None == << >>
Some(x) == <<x>>
IsSome(o) == o # << >>
Unwrap(o) == o[1]

LowerChar(c) == IF c \in 65..90 THEN c + 32 ELSE c
ToLower(s) == [i \in 1..Len(s) |-> LowerChar(s[i])]

Contains(s, q) ==
    \E i \in 0..(Len(s) - Len(q)) : SubSeq(s, i + 1, i + Len(q)) = q

\* Ord for integers: -1 Less, 0 Equal, 1 Greater
IntCmp(a, b) == IF a < b THEN -1 ELSE IF a > b THEN 1 ELSE 0

RECURSIVE StrCmpFrom(_, _, _)
StrCmpFrom(a, b, i) ==
    IF i > Len(a) /\ i > Len(b) THEN 0
    ELSE IF i > Len(a) THEN -1
    ELSE IF i > Len(b) THEN 1
    ELSE IF a[i] # b[i] THEN IntCmp(a[i], b[i])
    ELSE StrCmpFrom(a, b, i + 1)

\* Ord for String: byte-wise lexicographic
StrCmp(a, b) == StrCmpFrom(a, b, 1)

RECURSIVE DecStr(_)
\* u32::to_string / u16::to_string
DecStr(n) == IF n < 10 THEN <<48 + n>> ELSE DecStr(n \div 10) \o <<48 + (n % 10)>>

Reverse(c) == 0 - c

(***************************************************************************)
(* Entities.  Only the fields the list states read are kept.               *)
(***************************************************************************)
\* ProcessInfo as enumerate_processes builds it: the name is the last
\* component of the path, all four metrics start at 0.
ProcessInfo(pid, name) ==
    [pid |-> pid, name |-> name, path |-> Some(<<120, 92>> \o name),
     cpu_usage |-> 0, memory_mb |-> 0, last_cpu_usage |-> 0, last_memory_mb |-> 0]

ServiceInfo(service_name, display_name, status, service_type) ==
    [service_name |-> service_name, display_name |-> display_name,
     status |-> status, service_type |-> service_type]

ConnectionInfo(protocol, local_addr, local_port, remote_addr, remote_port, state, pid, process_name) ==
    [protocol |-> protocol, local_addr |-> local_addr, local_port |-> local_port,
     remote_addr |-> remote_addr, remote_port |-> remote_port, state |-> state,
     pid |-> pid, process_name |-> process_name]

\* "Own Process", "Share Process", "TCP", "UDP"
OwnProcess == <<79, 119, 110, 32, 80, 114, 111, 99, 101, 115, 115>>
ShareProcess == <<83, 104, 97, 114, 101, 32, 80, 114, 111, 99, 101, 115, 115>>
TCP == <<84, 67, 80>>
UDP == <<85, 68, 80>>

Domains == {"locker", "controller", "nexus"}

(***************************************************************************)
(* Inputs: the snapshots the three snapshot sources return, and the search *)
(* queries the user types.                                                 *)
(***************************************************************************)
\* enumerate_processes returns the processes sorted by name.
ProcessSnapshots ==
    { << >>,
      <<ProcessInfo(2, <<66>>), ProcessInfo(1, <<97>>), ProcessInfo(3, <<98>>)>>,
      <<ProcessInfo(1, <<97>>), ProcessInfo(3, <<98>>)>>,
      <<ProcessInfo(1, <<97>>), ProcessInfo(3, <<99>>)>> }

ServiceSnapshots ==
    { << >>,
      <<ServiceInfo(<<97>>, <<66>>, "Stopped", OwnProcess),
        ServiceInfo(<<98, 51>>, <<97>>, "Running", ShareProcess),
        ServiceInfo(<<99>>, <<99>>, "Paused", OwnProcess)>>,
      <<ServiceInfo(<<97>>, <<66>>, "Running", OwnProcess),
        ServiceInfo(<<98, 51>>, <<97>>, "Running", ShareProcess)>>,
      <<ServiceInfo(<<97>>, <<67>>, "Running", ShareProcess),
        ServiceInfo(<<99, 51>>, <<97>>, "Running", ShareProcess)>> }

Conn1 == ConnectionInfo(TCP, <<57>>, 80, <<56>>, 5, "ESTABLISHED", 3, Some(<<66>>))
Conn2 == ConnectionInfo(TCP, <<57>>, 80, <<55>>, 6, "TIME_WAIT", 3, Some(<<66>>))
Conn3 == ConnectionInfo(UDP, <<48>>, 53, <<42>>, 0, "N/A", 7, None)
Conn4 == ConnectionInfo(TCP, <<57>>, 44, <<56>>, 5, "LISTENING", 1, Some(<<97>>))

ConnectionSnapshots ==
    { << >>, <<Conn1, Conn4, Conn3>>, <<Conn2, Conn4, Conn3>>, <<Conn4, Conn3>> }

Snapshots(d) ==
    IF d = "locker" THEN ProcessSnapshots
    ELSE IF d = "controller" THEN ServiceSnapshots
    ELSE ConnectionSnapshots

\* One large snapshot per domain, for the page keys: BigLen entities 1..BigLen.
BigSnapshot(d) ==
    IF d = "locker"
        THEN [i \in 1..BigLen |-> ProcessInfo(i, <<96 + i>>)]
    ELSE IF d = "controller"
        THEN [i \in 1..BigLen |->
                ServiceInfo(DecStr(i), <<96 + i>>,
                            IF i % 2 = 0 THEN "Running" ELSE "Stopped", OwnProcess)]
    ELSE [i \in 1..BigLen |->
            ConnectionInfo(TCP, <<57>>, 80, <<56>>, 5, "ESTABLISHED", i, None)]

\* "", "B", "3": the searches committed as the filter
Queries == { << >>, <<66>>, <<51>> }
\* "", "B": the search box contents during navigation
NavQueries == { << >>, <<66>> }
\* "", "3", "1"
PageQueries == { << >>, <<51>>, <<49>> }

\* the inputs of the runs with the metrics poll
MetricsSnapshots ==
    { <<ProcessInfo(2, <<66>>), ProcessInfo(1, <<97>>), ProcessInfo(3, <<98>>)>>,
      <<ProcessInfo(1, <<97>>), ProcessInfo(3, <<98>>)>> }
\* "", "B"
MetricsQueries == { << >>, <<66>> }

(***************************************************************************)
(* Sort keys and orders                                                    *)
(***************************************************************************)
LockerSortKeyNext(k) ==
    CASE k = "Name" -> "Pid" [] k = "Pid" -> "Cpu" [] k = "Cpu" -> "Memory"
      [] k = "Memory" -> "Name"

ControllerSortKeyNext(k) ==
    CASE k = "Name" -> "Status" [] k = "Status" -> "Type" [] k = "Type" -> "Name"

NexusSortKeyNext(k) ==
    CASE k = "State" -> "Pid" [] k = "Pid" -> "Protocol"
      [] k = "Protocol" -> "ProcessName" [] k = "ProcessName" -> "State"

\* a bug: the process keys cycle in another order
SortKeyNext_swapped(d, k) ==
    IF d = "locker"
    THEN CASE k = "Name" -> "Cpu" [] k = "Cpu" -> "Pid" [] k = "Pid" -> "Memory"
           [] k = "Memory" -> "Name"
    ELSE IF d = "controller" THEN ControllerSortKeyNext(k)
    ELSE NexusSortKeyNext(k)

SortKeyNext(d, k) ==
    IF d = "locker" THEN LockerSortKeyNext(k)
    ELSE IF d = "controller" THEN ControllerSortKeyNext(k)
    ELSE NexusSortKeyNext(k)

SortOrderToggle(o) == IF o = "Ascending" THEN "Descending" ELSE "Ascending"

InitialSortKey(d) ==
    IF d = "locker" THEN "Cpu" ELSE IF d = "controller" THEN "Status" ELSE "State"

InitialSortOrder(d) == IF d = "locker" THEN "Descending" ELSE "Ascending"

status_priority(status) ==
    CASE status = "Running" -> 0
      [] status = "Start Pending" -> 1
      [] status = "Stop Pending" -> 2
      [] status = "Paused" -> 3
      [] status = "Pause Pending" -> 4
      [] status = "Continue Pending" -> 5
      [] status = "Stopped" -> 6
      [] OTHER -> 7

state_priority(state) ==
    CASE state = "ESTABLISHED" -> 0
      [] state = "LISTENING" -> 1
      [] state = "SYN_SENT" -> 2
      [] state = "SYN_RCVD" -> 3
      [] state = "FIN_WAIT1" -> 4
      [] state = "FIN_WAIT2" -> 5
      [] state = "CLOSE_WAIT" -> 6
      [] state = "CLOSING" -> 7
      [] state = "LAST_ACK" -> 8
      [] state = "TIME_WAIT" -> 9
      [] state = "CLOSED" -> 10
      [] state = "DELETE_TCB" -> 11
      [] state = "N/A" -> 12
      [] OTHER -> 13

(***************************************************************************)
(* Comparators of sort_processes / sort_services / sort_connections, before *)
(* the reversal for Descending.                                            *)
(***************************************************************************)
\* the value a metric sorts (and displays) by: the sample, or the cached one
CpuValue(p) == IF p.cpu_usage > 0 THEN p.cpu_usage ELSE p.last_cpu_usage
MemoryValue(p) == IF p.memory_mb > 0 THEN p.memory_mb ELSE p.last_memory_mb

LockerKeyCmp(k, a, b) ==
    CASE k = "Name" -> StrCmp(a.name, b.name)
      [] k = "Pid" -> IntCmp(a.pid, b.pid)
      [] k = "Cpu" -> IntCmp(CpuValue(a), CpuValue(b))
      [] k = "Memory" -> IntCmp(MemoryValue(a), MemoryValue(b))

ControllerKeyCmp(k, a, b) ==
    CASE k = "Name" -> StrCmp(a.display_name, b.display_name)
      [] k = "Status" -> IntCmp(status_priority(a.status), status_priority(b.status))
      [] k = "Type" -> StrCmp(a.service_type, b.service_type)

ProcessNameOrEmpty(c) == IF IsSome(c.process_name) THEN Unwrap(c.process_name) ELSE << >>

NexusKeyCmp(k, a, b) ==
    CASE k = "State" -> IntCmp(state_priority(a.state), state_priority(b.state))
      [] k = "Pid" -> IntCmp(a.pid, b.pid)
      [] k = "Protocol" -> StrCmp(a.protocol, b.protocol)
      [] k = "ProcessName" -> StrCmp(ProcessNameOrEmpty(a), ProcessNameOrEmpty(b))

KeyCmp(d, k, a, b) ==
    IF d = "locker" THEN LockerKeyCmp(k, a, b)
    ELSE IF d = "controller" THEN ControllerKeyCmp(k, a, b)
    ELSE NexusKeyCmp(k, a, b)

\* the closure handed to sort_by
SortCmp(d, k, o, a, b) ==
    IF o = "Descending" THEN Reverse(KeyCmp(d, k, a, b)) ELSE KeyCmp(d, k, a, b)

\* slice::sort_by is a stable sort: x goes after every element not greater
\* than it.
RECURSIVE InsertSorted(_, _, _, _, _)
InsertSorted(d, k, o, s, x) ==
    IF s = << >> THEN <<x>>
    ELSE IF SortCmp(d, k, o, x, Head(s)) < 0 THEN <<x>> \o s
    ELSE <<Head(s)>> \o InsertSorted(d, k, o, Tail(s), x)

RECURSIVE SortByFrom(_, _, _, _, _, _)
SortByFrom(d, k, o, s, i, acc) ==
    IF i > Len(s) THEN acc
    ELSE SortByFrom(d, k, o, s, i + 1, InsertSorted(d, k, o, acc, s[i]))

\* sort_processes / sort_services / sort_connections
sort_entities(d, k, o, s) == SortByFrom(d, k, o, s, 1, << >>)

(***************************************************************************)
(* Identity, fingerprint and filter of each domain                        *)
(***************************************************************************)
\* what selected_pid / selected_service_name / selected_connection_key hold
Identity(d, e) ==
    IF d = "locker" THEN e.pid
    ELSE IF d = "controller" THEN e.service_name
    ELSE <<e.pid, e.local_addr, e.local_port, e.remote_addr, e.remote_port>>

\* the fields compute_data_hash feeds to the hasher for one entity
LockerHashFields(p) == <<p.pid, p.name>>
ControllerHashFields(s) == <<s.service_name, s.status>>
NexusHashFields(c) == <<c.pid, c.local_addr, c.local_port>>

HashFields(d, e) ==
    IF d = "locker" THEN LockerHashFields(e)
    ELSE IF d = "controller" THEN ControllerHashFields(e)
    ELSE NexusHashFields(e)

\* the initial last_data_hash (0)
ZeroHash == << >>

compute_data_hash(d, snapshot) ==
    <<Len(snapshot)>> \o [i \in 1..Len(snapshot) |-> HashFields(d, snapshot[i])]

LockerMatchesFilter(p, query) ==
    \/ Contains(ToLower(p.name), query)
    \/ (IsSome(p.path) /\ Contains(ToLower(Unwrap(p.path)), query))
    \/ Contains(DecStr(p.pid), query)

ControllerMatchesFilter(s, query) ==
    \/ Contains(ToLower(s.display_name), query)
    \/ Contains(ToLower(s.service_name), query)

NexusMatchesFilter(c, query) ==
    \/ (IsSome(c.process_name) /\ Contains(ToLower(Unwrap(c.process_name)), query))
    \/ Contains(ToLower(c.local_addr), query)
    \/ Contains(ToLower(c.remote_addr), query)
    \/ Contains(DecStr(c.pid), query)
    \/ Contains(DecStr(c.local_port), query)

matches_filter(d, e, query) ==
    IF d = "locker" THEN LockerMatchesFilter(e, query)
    ELSE IF d = "controller" THEN ControllerMatchesFilter(e, query)
    ELSE NexusMatchesFilter(e, query)

\* a bug: a persisted filter wins over the transient query
get_filter_persisted_first(af, search_query) ==
    IF IsSome(af) THEN af
    ELSE IF search_query # << >> THEN Some(ToLower(search_query)) ELSE None

get_filter(af, search_query) ==
    IF search_query # << >> THEN Some(ToLower(search_query)) ELSE af

RECURSIVE FilterIndicesFrom(_, _, _, _)
FilterIndicesFrom(d, ents, query, i) ==
    IF i > Len(ents) THEN << >>
    ELSE (IF matches_filter(d, ents[i], query) THEN <<i - 1>> ELSE << >>)
            \o FilterIndicesFrom(d, ents, query, i + 1)

\* the 0-based indices into the entity list of the rows of the view
get_filtered_indices(d, ents, af, search_query) ==
    LET f == get_filter(af, search_query)
    IN  IF f = None THEN [i \in 1..Len(ents) |-> i - 1]
        ELSE FilterIndicesFrom(d, ents, Unwrap(f), 1)

\* filtered.get(idx).and_then(|&i| entities.get(i)).map(identity)
IdentityAt(d, ents, filtered, idx) ==
    IF idx < Len(filtered) THEN Some(Identity(d, ents[filtered[idx + 1] + 1])) ELSE None

\* filtered_processes / filtered_services / filtered_connections: the rows
\* the list is drawn from, each with its index in the entity list
filtered_entities(d, ents, af, search_query) ==
    LET filtered == get_filtered_indices(d, ents, af, search_query)
    IN  [j \in 1..Len(filtered) |-> <<filtered[j], ents[filtered[j] + 1]>>]

\* get_selected_process, and the service toggle_selected_service acts on:
\* the entity under the cursor in the filtered view
get_selected(d, ents, af, ls, search_query) ==
    LET filtered == get_filtered_indices(d, ents, af, search_query)
    IN  IF IsSome(ls) /\ Unwrap(ls) < Len(filtered)
        THEN Some(ents[filtered[Unwrap(ls) + 1] + 1])
        ELSE None

RECURSIVE Position(_, _, _, _, _)
\* filtered.iter().position(|&i| identity of entities[i] == id): 0-based, or
\* Len(filtered) when there is none
Position(d, ents, filtered, id, j) ==
    IF j >= Len(filtered) THEN Len(filtered)
    ELSE IF Identity(d, ents[filtered[j + 1] + 1]) = id THEN j
    ELSE Position(d, ents, filtered, id, j + 1)

\* the Some(..) branch of update_selection, on the view filtered by the
\* persisted filter, with new_idx the position of the selected identity
ReconcileSome(d, ents, sel, filtered, new_idx) ==
    IF new_idx < Len(filtered)
    THEN [list_state |-> Some(new_idx), selected |-> sel]
    ELSE IF filtered # << >>
    THEN [list_state |-> Some(0), selected |-> IdentityAt(d, ents, filtered, 0)]
    ELSE [list_state |-> None, selected |-> None]

\* the None branch of update_selection
ReconcileNone(d, ents, ls, sel) ==
    IF ents # << >>
    THEN [list_state |-> Some(0), selected |-> Some(Identity(d, ents[1]))]
    ELSE [list_state |-> ls, selected |-> sel]

UpdateSelectionOn(d, ents, ls, sel, filtered) ==
    IF IsSome(sel)
    THEN ReconcileSome(d, ents, sel, filtered,
                       Position(d, ents, filtered, Unwrap(sel), 0))
    ELSE ReconcileNone(d, ents, ls, sel)

\* update_selection_from_pid / _from_name / _from_key: the new
\* (list_state, selected)
update_selection(d, ents, af, ls, sel) ==
    UpdateSelectionOn(d, ents, ls, sel, get_filtered_indices(d, ents, af, << >>))

\* a bug: the comparison with the debounce window is reversed
should_ignore_update_reversed(initial, t, nav) ==
    IF initial THEN FALSE ELSE t - nav > NAVIGATION_DEBOUNCE

\* a bug: the initial load is debounced like any other update
should_ignore_update_no_initial(initial, t, nav) == t - nav < NAVIGATION_DEBOUNCE

should_ignore_update(initial, t, nav) ==
    IF initial THEN FALSE ELSE t - nav < NAVIGATION_DEBOUNCE

Min(a, b) == IF a < b THEN a ELSE b

\* a bug: select_next and select_prev stop at the ends instead of wrapping
NewIndex_no_wrap(op, i, n) ==
    CASE op = "select_next" -> Min(i + 1, n - 1)
      [] op = "select_prev" -> IF i > 0 THEN i - 1 ELSE 0
      [] op = "select_page_up" -> IF i >= PageSize THEN i - PageSize ELSE 0
      [] op = "select_page_down" -> Min(i + PageSize, IF n = 0 THEN 0 ELSE n - 1)
      [] op = "select_first" -> 0
      [] op = "select_last" -> n - 1

\* a bug: select_page_down wraps around instead of stopping at the last row
NewIndex_page_wraps(op, i, n) ==
    CASE op = "select_next" -> (i + 1) % n
      [] op = "select_prev" -> (i + n - 1) % n
      [] op = "select_page_up" -> IF i >= PageSize THEN i - PageSize ELSE 0
      [] op = "select_page_down" -> (i + PageSize) % n
      [] op = "select_first" -> 0
      [] op = "select_last" -> n - 1

\* the index a navigation operation moves to, from index i on a view of n rows
NewIndex(op, i, n) ==
    CASE op = "select_next" -> (i + 1) % n
      [] op = "select_prev" -> (i + n - 1) % n
      [] op = "select_page_up" -> IF i >= PageSize THEN i - PageSize ELSE 0
      [] op = "select_page_down" -> Min(i + PageSize, IF n = 0 THEN 0 ELSE n - 1)
      [] op = "select_first" -> 0
      [] op = "select_last" -> n - 1

NavOps(d) ==
    {"select_next", "select_prev", "select_page_up", "select_page_down"}
        \cup (IF d = "controller" THEN {} ELSE {"select_first", "select_last"})

(***************************************************************************)
(* Metrics sampling (sys::process::update_process_metrics)                 *)
(***************************************************************************)
\* What the OS answers for one process in one metrics poll: whether
\* OpenProcess, GetProcessTimes and GetProcessMemoryInfo succeed, and the CPU
\* percentage (already clamped to 0..100) and working set they yield.
MetricSamples == {"busy", "idle", "gone"}

Sample(kind, pid) ==
    CASE kind = "busy" ->
            [open |-> TRUE, times_ok |-> TRUE, mem_ok |-> TRUE, cpu |-> pid, mem |-> 10 - pid]
      [] kind = "idle" ->
            [open |-> TRUE, times_ok |-> TRUE, mem_ok |-> FALSE, cpu |-> 0, mem |-> 0]
      [] kind = "gone" ->
            [open |-> FALSE, times_ok |-> FALSE, mem_ok |-> FALSE, cpu |-> 0, mem |-> 0]

SampleCpu(p, prev, t, s) ==
    IF s.open /\ s.times_ok
    THEN IF p.pid \in DOMAIN prev
         THEN IF t - prev[p.pid] > 0
              THEN [p EXCEPT !.cpu_usage = s.cpu, !.last_cpu_usage = s.cpu]
              ELSE p
         ELSE [p EXCEPT !.last_cpu_usage = 0]
    ELSE p

SampleMemory(p, s) ==
    IF s.open /\ s.mem_ok
    THEN [p EXCEPT !.memory_mb = s.mem, !.last_memory_mb = s.mem]
    ELSE p

\* the processes after the poll
update_process_metrics(processes, prev, t, kind) ==
    [i \in 1..Len(processes) |->
        SampleMemory(SampleCpu(processes[i], prev, t, Sample(kind, processes[i].pid)),
                     Sample(kind, processes[i].pid))]

\* a bug: new_times is merged into PREV_CPU_TIMES
new_cpu_times_merged(processes, t, kind) ==
    [pid \in DOMAIN prev_cpu_times
             \cup {processes[i].pid : i \in {j \in 1..Len(processes) :
                        Sample(kind, processes[j].pid).open
                        /\ Sample(kind, processes[j].pid).times_ok}} |->
        IF \E i \in 1..Len(processes) :
              /\ processes[i].pid = pid
              /\ Sample(kind, pid).open
              /\ Sample(kind, pid).times_ok
        THEN t ELSE prev_cpu_times[pid]]

\* new_times, which replaces PREV_CPU_TIMES
new_cpu_times(processes, t, kind) ==
    [pid \in {processes[i].pid : i \in {j \in 1..Len(processes) :
                    Sample(kind, processes[j].pid).open
                    /\ Sample(kind, processes[j].pid).times_ok}} |-> t]

(***************************************************************************)
(* The App: tabs, keys, modal, collaborators                               *)
(***************************************************************************)
\* Tab::all()
Tabs == <<"locker", "controller", "nexus">>

\* next_tab / prev_tab, on the position idx + 1 of the tab in Tabs
next_tab(t) ==
    LET idx == (CHOOSE i \in 1..Len(Tabs) : Tabs[i] = t) - 1
    IN  Tabs[((idx + 1) % Len(Tabs)) + 1]

prev_tab(t) ==
    LET idx == (CHOOSE i \in 1..Len(Tabs) : Tabs[i] = t) - 1
    IN  Tabs[((idx + Len(Tabs) - 1) % Len(Tabs)) + 1]

\* crossterm KeyEvent: the code, the character of KeyCode::Char, the modifiers
Key(code, c, modifiers) == [code |-> code, c |-> c, modifiers |-> modifiers]

IsChar(key, cs) == key.code = "Char" /\ key.c \in cs

\* the keys pressed in the runs: Esc Enter Tab Backspace, Ctrl+d, and
\* q y j g G K f r /
Keys ==
    { Key(n, 0, "NONE") : n \in {"Esc", "Enter", "Tab", "Backspace"} }
        \cup { Key("Char", 100, "CONTROL") }
        \cup { Key("Char", c, "NONE") :
                 c \in {113, 121, 106, 103, 71, 75, 102, 114, 47} }

\* Modal::KillConfirmation and Modal::HandleSearch
KillConfirmation(pid, name) ==
    [kind |-> "KillConfirmation", pid |-> pid, name |-> name]

HandleSearch(input, results, sel, loading, error, is_directory, files_scanned) ==
    [kind |-> "HandleSearch", input |-> input, results |-> results, selected |-> sel,
     loading |-> loading, error |-> error, is_directory |-> is_directory,
     files_scanned |-> files_scanned]

ModalKind(modal) == IF modal = << >> THEN "Closed" ELSE modal[1].kind

\* What find_locking_processes / find_locking_processes_in_directory answer
\* (LockingProcess: pid and name), with what Path::is_dir answers for the
\* first path.
SearchOutcomes ==
    { [is_directory |-> TRUE, ok |-> TRUE,
       results |-> <<[pid |-> 3, name |-> <<98>>], [pid |-> 1, name |-> <<97>>]>>,
       scanned |-> 2],
      [is_directory |-> FALSE, ok |-> FALSE, results |-> << >>, scanned |-> 0] }

\* the snapshots the sources return in the runs of the App
AppSnapshots(d) ==
    IF d = "locker"
        THEN { <<ProcessInfo(1, <<97>>), ProcessInfo(3, <<98>>)>>,
               <<ProcessInfo(3, <<98>>)>> }
    ELSE IF d = "controller"
        THEN { <<ServiceInfo(<<97>>, <<66>>, "Stopped", OwnProcess),
                 ServiceInfo(<<98, 51>>, <<97>>, "Running", ShareProcess)>> }
    ELSE { <<Conn1, Conn4>> }

\* App::new, with the chord flag pending_gg not armed
App_new ==
    [current_tab |-> "locker", is_elevated |-> FALSE, search_mode |-> FALSE,
     search_query |-> << >>, status_message |-> << >>, modal |-> << >>,
     handle_search_input_mode |-> FALSE, pending_gg |-> FALSE]

\* check_elevation
check_elevation(a, elevated) ==
    [a EXCEPT !.is_elevated = elevated,
              !.status_message =
                  IF elevated THEN a.status_message
                  ELSE <<<<"Running without admin - some actions unavailable">>>>]

\* history: what handle_key_event was called with and did; fetch holds the
\* snapshot sources a step called, each with whether it answered Ok
Handled(key, route, armed, quit, call) ==
    [key |-> key, route |-> route, armed |-> armed, quit |-> quit, call |-> call,
     fetch |-> {}]

\* history: no key has been handled by the last step
NoKey == Handled(Key("-", 0, "NONE"), "-", FALSE, FALSE, << >>)

\* main: the channel is empty, nothing was sent, the three producer tasks
\* run, run_app is about to draw its first frame.  sent and applied are
\* history: the events in the order they were enqueued and in the order
\* run_app applied them; work is history: the pieces of work applied since
\* the last frame; alive holds the producers whose task has not ended.
LoopNew ==
    [pc |-> "draw", chan |-> << >>, sent |-> << >>, applied |-> << >>, work |-> << >>,
     alive |-> {"Tick", "PollData", "MetricsTick"}]

(***************************************************************************)
(* The list state: Init and the operations                                 *)
(***************************************************************************)
\* LockerState::new / ControllerState::new / NexusState::new
ListNew(kept) ==
    /\ domain \in Domains
    /\ entities = << >>
    /\ list_state = None
    /\ selected = None
    /\ active_filter = None
    /\ sort_key = InitialSortKey(domain)
    /\ sort_order = InitialSortOrder(domain)
    /\ last_data_hash = ZeroHash
    /\ is_initial_load = TRUE
    /\ last_navigation = 0
    /\ now = 0
    /\ prev_cpu_times = << >>
    /\ last = [op |-> "new", tq |-> FALSE, res |-> "-", nth |-> "-"]
    /\ hist = [prev_snap |-> None, debounced_after_nav |-> None, ever_accepted |-> FALSE,
             nav_from |-> None, kept |-> kept, steady |-> None]

\* App::new: the three list states as constructed, no modal, no mode
Init ==
    /\ ListNew(TRUE)
    /\ app = App_new
    /\ ui = NoKey
    /\ rt = LoopNew

\* the steps of the list state leave the App alone
AppIdle == UNCHANGED <<app, ui, rt>>

\* history: the list-state history is written in the runs that keep it
Kept(new, old) == IF hist.kept THEN new ELSE old

\* a bug: the fingerprint check is dropped
data_unchanged_never(new_hash, old_hash) == FALSE

\* new_hash == self.last_data_hash
data_unchanged(new_hash, old_hash) == new_hash = old_hash

\* which of its three ways update_processes / update_services /
\* update_connections takes
UpdateOutcome(d, snapshot, old_hash, initial, t, nav) ==
    IF data_unchanged(compute_data_hash(d, snapshot), old_hash) THEN "unchanged"
    ELSE IF should_ignore_update(initial, t, nav) THEN "debounced"
    ELSE "accepted"

\* update_processes / update_services / update_connections
\* the part of update after the two early returns: replace, sort, reconcile
Accept(sorted, sel) ==
    /\ entities' = sorted
    /\ list_state' = sel.list_state
    /\ selected' = sel.selected
    /\ is_initial_load' = FALSE

UpdateWith(snapshot, res, new_hash) ==
    /\ last_data_hash' = IF res = "unchanged" THEN last_data_hash ELSE new_hash
    /\ IF res = "accepted"
       THEN Accept(sort_entities(domain, sort_key, sort_order, snapshot),
                   update_selection(domain,
                                    sort_entities(domain, sort_key, sort_order, snapshot),
                                    active_filter, list_state, selected))
       ELSE UNCHANGED <<entities, list_state, selected, is_initial_load>>
    /\ last' = Kept([op |-> "update", tq |-> FALSE, res |-> res,
                      nth |-> IF hist.prev_snap = None THEN "first"
                              ELSE IF hist.prev_snap = Some(snapshot) THEN "repeat"
                              ELSE "other"], last)
    /\ hist' = Kept([prev_snap |-> Some(snapshot),
                      debounced_after_nav |->
                          IF res = "debounced" /\ last.op \in NavOps(domain)
                          THEN Some(snapshot) ELSE None,
                      ever_accepted |-> (hist.ever_accepted \/ res = "accepted"),
                      nav_from |-> None, kept |-> TRUE, steady |-> hist.steady], hist)
    /\ UNCHANGED <<domain, active_filter, sort_key, sort_order, last_navigation,
                   now, prev_cpu_times>>

\* update_processes / update_services / update_connections
Update(snapshot) ==
    UpdateWith(snapshot,
               UpdateOutcome(domain, snapshot, last_data_hash, is_initial_load,
                             now, last_navigation),
               compute_data_hash(domain, snapshot))

\* select_next, select_prev, select_page_up, select_page_down, select_first,
\* select_last: mark_navigation, then move on the filtered view
\* the selection after a navigation operation on the view `filtered`
MoveTo(filtered, new_idx) ==
    /\ list_state' = Some(new_idx)
    /\ selected' = IdentityAt(domain, entities, filtered, new_idx)

\* history: the cursor and selection a select_next started from, when the
\* cursor was on a row of the view
NavFrom(op, filtered) ==
    IF op = "select_next" /\ IsSome(list_state) /\ Unwrap(list_state) < Len(filtered)
    THEN Some([list_state |-> list_state, selected |-> selected])
    ELSE None

\* a bug: the empty view returns before the navigation is stamped
NavigationStamp_after_empty_check(filtered, nav, t) ==
    IF filtered = << >> THEN nav ELSE t

\* last_navigation after a navigation operation on the view filtered:
\* mark_navigation is the first statement, before the view is computed
NavigationStamp(filtered, nav, t) == t

\* a navigation operation on the view filtered
MoveOn(op, search_query, filtered) ==
    /\ last_navigation' = NavigationStamp(filtered, last_navigation, now)
    /\ IF filtered = << >>
       THEN UNCHANGED <<list_state, selected>>
       ELSE MoveTo(filtered,
                   NewIndex(op, IF IsSome(list_state) THEN Unwrap(list_state) ELSE 0,
                            Len(filtered)))
    /\ last' = Kept([op |-> op, tq |-> (search_query # << >>), res |-> "-",
                      nth |-> "-"], last)
    /\ hist' = Kept([hist EXCEPT !.debounced_after_nav = None,
                                  !.nav_from = NavFrom(op, filtered)], hist)
    /\ UNCHANGED <<domain, entities, active_filter, sort_key, sort_order,
                   last_data_hash, is_initial_load, now, prev_cpu_times>>

\* the navigation operations of the domain
NavigateOn(op, search_query, filtered) ==
    /\ op \in NavOps(domain)
    /\ MoveOn(op, search_query, filtered)

Navigate(op, search_query) ==
    NavigateOn(op, search_query,
               get_filtered_indices(domain, entities, active_filter, search_query))

SelectNext(q) == Navigate("select_next", q)
SelectPrev(q) == Navigate("select_prev", q)
SelectPageUp(q) == Navigate("select_page_up", q)
SelectPageDown(q) == Navigate("select_page_down", q)
SelectFirst(q) == Navigate("select_first", q)
SelectLast(q) == Navigate("select_last", q)

\* a bug: the query is stored as typed
FilterOf_as_typed(query) == IF query = << >> THEN None ELSE Some(query)

\* the filter set_filter stores
FilterOf(query) == IF query = << >> THEN None ELSE Some(ToLower(query))

\* set_filter and clear_filter, with the filter they store and the
\* selection update_selection computes under it
Refilter(op, filter, sel) ==
    /\ active_filter' = filter
    /\ list_state' = sel.list_state
    /\ selected' = sel.selected
    /\ last' = Kept([op |-> op, tq |-> FALSE, res |-> "-", nth |-> "-"], last)
    /\ hist' = Kept([hist EXCEPT !.debounced_after_nav = None, !.nav_from = None], hist)
    /\ UNCHANGED <<domain, entities, sort_key, sort_order, last_data_hash,
                   is_initial_load, last_navigation, now, prev_cpu_times>>

SetFilter(query) ==
    Refilter("set_filter", FilterOf(query),
             update_selection(domain, entities, FilterOf(query), list_state, selected))

ClearFilter ==
    Refilter("clear_filter", None,
             update_selection(domain, entities, None, list_state, selected))

ResortWith(op, key, order, sorted, sel) ==
    /\ sort_key' = key
    /\ sort_order' = order
    /\ entities' = sorted
    /\ list_state' = sel.list_state
    /\ selected' = sel.selected
    /\ last' = Kept([op |-> op, tq |-> FALSE, res |-> "-", nth |-> "-"], last)
    /\ hist' = Kept([hist EXCEPT !.debounced_after_nav = None, !.nav_from = None], hist)
    /\ UNCHANGED <<domain, active_filter, last_data_hash, is_initial_load,
                   last_navigation, now, prev_cpu_times>>

\* cycle_sort_key and toggle_sort_order, with the key and order they set
Resort(op, key, order) ==
    ResortWith(op, key, order,
               sort_entities(domain, key, order, entities),
               update_selection(domain, sort_entities(domain, key, order, entities),
                                active_filter, list_state, selected))

CycleSortKey == Resort("cycle_sort_key", SortKeyNext(domain, sort_key), sort_order)
ToggleSortOrder == Resort("toggle_sort_order", sort_key, SortOrderToggle(sort_order))

\* App::update_metrics on a MetricsTick: the process list is rewritten in
\* place
MetricsPoll(kind) ==
    /\ domain = "locker"
    /\ entities' = update_process_metrics(entities, prev_cpu_times, now, kind)
    /\ prev_cpu_times' = new_cpu_times(entities, now, kind)
    /\ last' = Kept([op |-> "update_metrics", tq |-> FALSE, res |-> "-", nth |-> "-"],
                     last)
    /\ hist' = Kept([hist EXCEPT !.debounced_after_nav = None, !.nav_from = None], hist)
    /\ UNCHANGED <<domain, list_state, selected, active_filter, sort_key, sort_order,
                   last_data_hash, is_initial_load, last_navigation, now>>

\* time passes
Elapse ==
    /\ now + TimeStep <= MaxTime
    /\ now' = now + TimeStep
    /\ UNCHANGED <<domain, entities, list_state, selected, active_filter, sort_key,
                   sort_order, last_data_hash, is_initial_load, last_navigation,
                   prev_cpu_times, last, hist>>

\* The list state of each domain under updates, navigation, filter and sort
\* changes.
Next ==
    \/ \E s \in Snapshots(domain) : Update(s) /\ AppIdle
    \/ \E q \in NavQueries : SelectNext(q) /\ AppIdle
    \/ \E q \in NavQueries : SelectPrev(q) /\ AppIdle
    \/ \E q \in NavQueries : SelectPageUp(q) /\ AppIdle
    \/ \E q \in NavQueries : SelectPageDown(q) /\ AppIdle
    \/ \E q \in NavQueries : SelectFirst(q) /\ AppIdle
    \/ \E q \in NavQueries : SelectLast(q) /\ AppIdle
    \/ \E q \in Queries : SetFilter(q) /\ AppIdle
    \/ ClearFilter /\ AppIdle
    \/ CycleSortKey /\ AppIdle
    \/ ToggleSortOrder /\ AppIdle
    \/ Elapse /\ AppIdle

Spec == Init /\ [][Next]_vars

\* The list state of each domain loaded with a list longer than a page.
NextPage ==
    \/ Update(BigSnapshot(domain)) /\ AppIdle
    \/ \E q \in PageQueries : SelectNext(q) /\ AppIdle
    \/ \E q \in PageQueries : SelectPrev(q) /\ AppIdle
    \/ \E q \in PageQueries : SelectPageUp(q) /\ AppIdle
    \/ \E q \in PageQueries : SelectPageDown(q) /\ AppIdle
    \/ \E q \in PageQueries : SelectFirst(q) /\ AppIdle
    \/ \E q \in PageQueries : SelectLast(q) /\ AppIdle
    \/ \E q \in PageQueries : SetFilter(q) /\ AppIdle
    \/ ClearFilter /\ AppIdle
    \/ Elapse /\ AppIdle

SpecPage == Init /\ [][NextPage]_vars

\* The process list under updates, filter and sort changes, navigation and
\* the metrics poll.
InitMetrics == Init /\ domain = "locker"

NextMetrics ==
    \/ \E s \in MetricsSnapshots : Update(s) /\ AppIdle
    \/ SelectNext(<< >>) /\ AppIdle
    \/ SelectPrev(<< >>) /\ AppIdle
    \/ \E q \in MetricsQueries : SetFilter(q) /\ AppIdle
    \/ ClearFilter /\ AppIdle
    \/ CycleSortKey /\ AppIdle
    \/ ToggleSortOrder /\ AppIdle
    \/ \E k \in MetricSamples : MetricsPoll(k) /\ AppIdle
    \/ Elapse /\ AppIdle

SpecMetrics == InitMetrics /\ [][NextMetrics]_vars

\* from now on the snapshot source answers `snapshot` on every data poll, and
\* the user navigates no more
Settle(snapshot) ==
    /\ hist.steady = None
    /\ hist' = [hist EXCEPT !.steady = Some(snapshot)]
    /\ UNCHANGED <<domain, entities, list_state, selected, active_filter, sort_key,
                   sort_order, last_data_hash, is_initial_load, last_navigation, now,
                   prev_cpu_times, last>>

\* a data poll once the source has settled
SteadyPoll ==
    /\ IsSome(hist.steady)
    /\ Update(Unwrap(hist.steady))

\* The list state of each domain under updates and navigation, until the
\* source settles on one snapshot; then under the data polls only.
NextConverge ==
    \/ \E s \in Snapshots(domain) : hist.steady = None /\ Update(s) /\ AppIdle
    \/ hist.steady = None /\ SelectNext(<< >>) /\ AppIdle
    \/ \E s \in Snapshots(domain) : Settle(s) /\ AppIdle
    \/ SteadyPoll /\ AppIdle
    \/ Elapse /\ AppIdle

\* the data-poll producer fires on every period for ever, and time passes
SpecConverge ==
    /\ Init
    /\ [][NextConverge]_vars
    /\ WF_vars(SteadyPoll /\ AppIdle)
    /\ WF_vars(Elapse /\ AppIdle)

(***************************************************************************)
(* The App: handle_key_event and the events of run_app                     *)
(***************************************************************************)
\* App::new, check_elevation
InitApp ==
    /\ ListNew(FALSE)
    /\ app \in {check_elevation(App_new, e) : e \in BOOLEAN}
    /\ ui = NoKey
    /\ rt = LoopNew

\* an operation of the current tab's list state; the list states of the other
\* two tabs are not part of this instance
OnCurrentTab(A) == IF app.current_tab = domain THEN A ELSE UNCHANGED list_vars

\* a bug: a failed enumerate empties the list
refresh_current_tab_empty_on_failure(ok) ==
    IF app.current_tab # domain THEN UNCHANGED list_vars
    ELSE IF ok THEN \E s \in AppSnapshots(domain) : Update(s)
    ELSE Update(<< >>)

\* refresh_current_tab: the current tab's source is called, and the list is
\* updated with the snapshot if the source answered Ok
refresh_current_tab(ok) ==
    IF ok /\ app.current_tab = domain
    THEN \E s \in AppSnapshots(domain) : Update(s)
    ELSE UNCHANGED list_vars

\* the process show_kill_confirmation finds selected in the process list
SelectedProcesses ==
    IF domain = "locker"
    THEN {get_selected(domain, entities, active_filter, list_state, app.search_query)}
    ELSE {None, Some(ProcessInfo(3, <<98>>))}

\* show_kill_confirmation
show_kill_confirmation(a, process) ==
    IF a.current_tab = "locker" /\ IsSome(process)
    THEN [a EXCEPT !.modal = Some(KillConfirmation(Unwrap(process).pid,
                                                   Unwrap(process).name))]
    ELSE a

\* cancel_modal
cancel_modal(a) == [a EXCEPT !.modal = None]

\* open_handle_search
open_handle_search(a) ==
    [a EXCEPT !.modal = Some(HandleSearch(<< >>, << >>, 0, FALSE, None, FALSE, None)),
              !.handle_search_input_mode = FALSE]

\* enter_handle_search_input_mode / exit_handle_search_input_mode
enter_handle_search_input_mode(a) == [a EXCEPT !.handle_search_input_mode = TRUE]
exit_handle_search_input_mode(a) == [a EXCEPT !.handle_search_input_mode = FALSE]

\* handle_search_modal_char / handle_search_modal_backspace
handle_search_modal_char(a, c) ==
    [a EXCEPT !.modal = Some([Unwrap(a.modal) EXCEPT !.input = @ \o <<c>>])]

handle_search_modal_backspace(a) ==
    [a EXCEPT !.modal =
        Some([Unwrap(a.modal) EXCEPT !.input = SubSeq(@, 1, Len(@) - 1)])]

\* execute_handle_search with the collaborator's answer o.  No key types a
\* line break, so the input is one line: no path when it is empty.
execute_handle_search(a, o) ==
    LET m == Unwrap(a.modal)
        file_paths == IF m.input = << >> THEN << >> ELSE <<m.input>>
    IN  IF file_paths = << >>
        THEN [a EXCEPT !.modal = Some([m EXCEPT !.error = Some("Enter file path(s)")])]
        ELSE [a EXCEPT !.modal =
                IF o.ok
                THEN Some(HandleSearch(m.input, o.results, 0, FALSE, None,
                                       o.is_directory,
                                       IF o.is_directory THEN Some(o.scanned) ELSE None))
                ELSE Some(HandleSearch(m.input, << >>, 0, FALSE, Some("os error"),
                                       FALSE, None))]

\* handle_search_modal_select_next / handle_search_modal_select_prev
handle_search_modal_select_next(a) ==
    LET m == Unwrap(a.modal)
    IN  IF m.results # << >>
        THEN [a EXCEPT !.modal =
                Some([m EXCEPT !.selected = (m.selected + 1) % Len(m.results)])]
        ELSE a

handle_search_modal_select_prev(a) ==
    LET m == Unwrap(a.modal)
    IN  IF m.results # << >>
        THEN [a EXCEPT !.modal =
                Some([m EXCEPT !.selected =
                        (m.selected + Len(m.results) - 1) % Len(m.results)])]
        ELSE a

\* handle_search_modal_select_first / handle_search_modal_select_last: the
\* first and the last result
handle_search_modal_select_first(a) ==
    LET m == Unwrap(a.modal)
    IN  IF m.results # << >> THEN [a EXCEPT !.modal = Some([m EXCEPT !.selected = 0])]
        ELSE a

handle_search_modal_select_last(a) ==
    LET m == Unwrap(a.modal)
    IN  IF m.results # << >>
        THEN [a EXCEPT !.modal = Some([m EXCEPT !.selected = Len(m.results) - 1])]
        ELSE a

\* a bug: the kill is asked for the first result, not the selected one
kill_first_locking_process(a) ==
    LET m == Unwrap(a.modal)
    IN  IF m.results # << >>
        THEN [a EXCEPT !.modal = Some(KillConfirmation(m.results[1].pid,
                                                       m.results[1].name))]
        ELSE a

\* kill_selected_locking_process
kill_selected_locking_process(a) ==
    LET m == Unwrap(a.modal)
    IN  IF m.selected < Len(m.results)
        THEN [a EXCEPT !.modal = Some(KillConfirmation(m.results[m.selected + 1].pid,
                                                       m.results[m.selected + 1].name))]
        ELSE a

\* app.pending_gg = false
Disarm(a) == [a EXCEPT !.pending_gg = FALSE]

\* a bug: leaving search mode keeps the typed query
SearchModeKey_keeps_query(key) ==
    /\ IF key.code \in {"Esc", "Enter"}
           THEN /\ OnCurrentTab(SetFilter(app.search_query))
                /\ app' = [app EXCEPT !.search_mode = FALSE]
       ELSE IF key.code = "Char"
           THEN /\ Len(app.search_query) < MaxInput
                /\ app' = [app EXCEPT !.search_query = @ \o <<key.c>>]
                /\ UNCHANGED list_vars
       ELSE IF key.code = "Backspace"
           THEN /\ app' = [app EXCEPT !.search_query = SubSeq(@, 1, Len(@) - 1)]
                /\ UNCHANGED list_vars
       ELSE UNCHANGED <<app, list_vars>>
    /\ ui' = Handled(key, "search", app.pending_gg, FALSE, None)

\* handle_key_event in search mode; exit_search_mode makes the query the
\* current tab's filter
SearchModeKey(key) ==
    /\ IF key.code \in {"Esc", "Enter"}
           THEN /\ OnCurrentTab(SetFilter(app.search_query))
                /\ app' = [app EXCEPT !.search_mode = FALSE, !.search_query = << >>]
       ELSE IF key.code = "Char"
           THEN /\ Len(app.search_query) < MaxInput
                /\ app' = [app EXCEPT !.search_query = @ \o <<key.c>>]
                /\ UNCHANGED list_vars
       ELSE IF key.code = "Backspace"
           THEN /\ app' = [app EXCEPT !.search_query = SubSeq(@, 1, Len(@) - 1)]
                /\ UNCHANGED list_vars
       ELSE UNCHANGED <<app, list_vars>>
    /\ ui' = Handled(key, "search", app.pending_gg, FALSE, None)

\* handle_key_event: Ctrl+d and Ctrl+u
PageKey(key) ==
    /\ OnCurrentTab(Navigate(IF key.c = 100 THEN "select_page_down" ELSE "select_page_up",
                             app.search_query))
    /\ app' = app
    /\ ui' = Handled(key, "page", app.pending_gg, FALSE, None)

\* the calls of toggle_service that on_enter can make: toggle_selected_service
\* calls it for the service under the cursor, and ignores its answer
ToggleCalls ==
    IF app.current_tab # "controller" \/ ~app.is_elevated THEN {None}
    ELSE IF domain = "controller"
        THEN LET s == get_selected(domain, entities, active_filter, list_state,
                                   app.search_query)
             IN  IF IsSome(s)
                 THEN { Some([fn |-> "toggle_service",
                              arg |-> <<Unwrap(s).service_name, Unwrap(s).status>>,
                              ok |-> ok]) : ok \in BOOLEAN }
                 ELSE {None}
    ELSE {None} \cup { Some([fn |-> "toggle_service", arg |-> <<<<97>>, "Stopped">>,
                             ok |-> ok]) : ok \in BOOLEAN }

\* App::select_first / App::select_last: the current tab's list jumps to its
\* first or last row
App_select(op) ==
    OnCurrentTab(MoveOn(op, app.search_query,
                        get_filtered_indices(domain, entities, active_filter,
                                             app.search_query)))

\* handle_key_event: the plain keymap
PlainKey(key) ==
    IF IsChar(key, {113})
        THEN /\ ui' = Handled(key, "plain", app.pending_gg, TRUE, None)
             /\ UNCHANGED <<app, list_vars>>
    ELSE IF key.code = "Enter"
        THEN /\ \E call \in ToggleCalls :
                    ui' = Handled(key, "plain", app.pending_gg, FALSE, call)
             /\ UNCHANGED <<app, list_vars>>
    ELSE IF IsChar(key, {114})
        THEN \E ok \in BOOLEAN :
                /\ refresh_current_tab(ok)
                /\ app' = app
                /\ ui' = [Handled(key, "plain", app.pending_gg, FALSE, None)
                             EXCEPT !.fetch = {<<app.current_tab, ok>>}]
    ELSE /\ ui' = Handled(key, "plain", app.pending_gg, FALSE, None)
         /\ IF key.code = "Tab"
                THEN /\ app' = [app EXCEPT !.current_tab = next_tab(@)]
                     /\ UNCHANGED list_vars
            ELSE IF key.code = "BackTab"
                THEN /\ app' = [app EXCEPT !.current_tab = prev_tab(@)]
                     /\ UNCHANGED list_vars
            ELSE IF key.code = "Down" \/ IsChar(key, {106})
                THEN /\ OnCurrentTab(Navigate("select_next", app.search_query))
                     /\ app' = app
            ELSE IF key.code = "Up" \/ IsChar(key, {107})
                THEN /\ OnCurrentTab(Navigate("select_prev", app.search_query))
                     /\ app' = app
            ELSE IF IsChar(key, {47})
                THEN /\ app' = [app EXCEPT !.search_mode = TRUE, !.search_query = << >>]
                     /\ UNCHANGED list_vars
            ELSE IF IsChar(key, {102})
                THEN /\ app' = open_handle_search(app)
                     /\ UNCHANGED list_vars
            ELSE IF IsChar(key, {75})
                THEN /\ IF app.current_tab = "locker" /\ app.is_elevated
                        THEN \E p \in SelectedProcesses :
                                app' = show_kill_confirmation(app, p)
                        ELSE app' = app
                     /\ UNCHANGED list_vars
            ELSE IF IsChar(key, {115})
                THEN /\ IF key.modifiers = "SHIFT"
                        THEN OnCurrentTab(ToggleSortOrder)
                        ELSE OnCurrentTab(CycleSortKey)
                     /\ app' = app
            ELSE IF IsChar(key, {83})
                THEN /\ OnCurrentTab(ToggleSortOrder)
                     /\ app' = app
            ELSE IF IsChar(key, {103})
                THEN /\ IF app.pending_gg THEN App_select("select_first")
                        ELSE UNCHANGED list_vars
                     /\ app' = [app EXCEPT !.pending_gg = ~app.pending_gg]
            ELSE IF IsChar(key, {71})
                THEN /\ App_select("select_last")
                     /\ app' = Disarm(app)
            ELSE IF key.code = "Esc"
                THEN /\ IF IsSome(active_filter) THEN OnCurrentTab(ClearFilter)
                        ELSE UNCHANGED list_vars
                     /\ app' = Disarm(app)
            ELSE /\ app' = Disarm(app)
                 /\ UNCHANGED list_vars

\* a bug: the current tab is refreshed after a failed kill as well
confirm_kill_refreshes_always(key) ==
    \E e \in {0, 5}, ok \in BOOLEAN :
        /\ app' = [app EXCEPT !.status_message =
                                  IF e # 0 THEN Some(<<"Failed to kill process: {}", e>>)
                                  ELSE Some(<<"Process {} killed", Unwrap(app.modal).pid>>),
                              !.modal = None]
        /\ refresh_current_tab(ok)
        /\ ui' = [Handled(key, "KillConfirmation", app.pending_gg, FALSE,
                          Some([fn |-> "kill_process",
                                arg |-> <<Unwrap(app.modal).pid>>, ok |-> (e = 0)]))
                     EXCEPT !.fetch = {<<app.current_tab, ok>>}]

\* a bug: the process under the cursor at the confirmation is killed, not the
\* one the modal was opened for
confirm_kill_under_cursor(key) ==
    \E e \in {0, 5}, ok \in BOOLEAN :
        /\ IF e # 0
           THEN /\ ok
                /\ app' = [app EXCEPT !.status_message =
                                         Some(<<"Failed to kill process: {}", e>>),
                                      !.modal = None]
                /\ UNCHANGED list_vars
           ELSE /\ app' = [app EXCEPT !.status_message =
                                         Some(<<"Process {} killed",
                                                Unwrap(app.modal).pid>>),
                                      !.modal = None]
                /\ refresh_current_tab(ok)
        /\ ui' = [Handled(key, "KillConfirmation", app.pending_gg, FALSE,
                          Some([fn |-> "kill_process",
                                arg |-> IF domain = "locker" /\ entities # << >>
                                        THEN <<entities[1].pid>>
                                        ELSE <<Unwrap(app.modal).pid>>,
                                ok |-> (e = 0)]))
                     EXCEPT !.fetch = IF e = 0 THEN {<<app.current_tab, ok>>} ELSE {}]

\* confirm_kill: kill_process answers e (0: done, 5: access denied), the
\* status message is set, the current tab is refreshed after a kill, the modal
\* is closed
confirm_kill(key) ==
    \E e \in {0, 5}, ok \in BOOLEAN :
        /\ IF e # 0
           THEN /\ ok
                /\ app' = [app EXCEPT !.status_message =
                                         Some(<<"Failed to kill process: {}", e>>),
                                      !.modal = None]
                /\ UNCHANGED list_vars
           ELSE /\ app' = [app EXCEPT !.status_message =
                                         Some(<<"Process {} killed",
                                                Unwrap(app.modal).pid>>),
                                      !.modal = None]
                /\ refresh_current_tab(ok)
        /\ ui' = [Handled(key, "KillConfirmation", app.pending_gg, FALSE,
                          Some([fn |-> "kill_process",
                                arg |-> <<Unwrap(app.modal).pid>>, ok |-> (e = 0)]))
                     EXCEPT !.fetch = IF e = 0 THEN {<<app.current_tab, ok>>} ELSE {}]

\* a bug: 'q' reaches the plain keymap while the confirmation is open
KillConfirmationKey_q_quits(key) ==
    IF IsChar(key, {121, 89}) THEN confirm_kill(key)
    ELSE IF IsChar(key, {113}) THEN PlainKey(key)
    ELSE /\ app' = IF IsChar(key, {110, 78}) \/ key.code = "Esc"
                   THEN cancel_modal(app) ELSE app
         /\ ui' = Handled(key, "KillConfirmation", app.pending_gg, FALSE, None)
         /\ UNCHANGED list_vars

\* handle_key_event, a KillConfirmation modal open
KillConfirmationKey(key) ==
    IF IsChar(key, {121, 89}) THEN confirm_kill(key)
    ELSE /\ app' = IF IsChar(key, {110, 78, 113}) \/ key.code = "Esc"
                   THEN cancel_modal(app) ELSE app
         /\ ui' = Handled(key, "KillConfirmation", app.pending_gg, FALSE, None)
         /\ UNCHANGED list_vars

\* handle_key_event, the HandleSearch modal open, in its input field
HandleSearchInputKey(key) ==
    /\ IF key.code = "Esc" THEN app' = exit_handle_search_input_mode(app)
       ELSE IF key.code = "Enter"
           THEN \E o \in SearchOutcomes :
                    app' = execute_handle_search(exit_handle_search_input_mode(app), o)
       ELSE IF key.code = "Char"
           THEN /\ Len(Unwrap(app.modal).input) < MaxInput
                /\ app' = handle_search_modal_char(app, key.c)
       ELSE IF key.code = "Backspace" THEN app' = handle_search_modal_backspace(app)
       ELSE app' = app
    /\ ui' = Handled(key, "HandleSearch input", app.pending_gg, FALSE, None)
    /\ UNCHANGED list_vars

\* handle_key_event, the HandleSearch modal open, on its result list
HandleSearchKey(key) ==
    /\ IF key.code = "Esc" \/ IsChar(key, {113}) THEN app' = cancel_modal(Disarm(app))
       ELSE IF IsChar(key, {47}) THEN app' = enter_handle_search_input_mode(Disarm(app))
       ELSE IF key.code = "Enter"
           THEN \E o \in SearchOutcomes : app' = execute_handle_search(Disarm(app), o)
       ELSE IF key.code = "Down" \/ IsChar(key, {106})
           THEN app' = handle_search_modal_select_next(Disarm(app))
       ELSE IF key.code = "Up" \/ IsChar(key, {107})
           THEN app' = handle_search_modal_select_prev(Disarm(app))
       ELSE IF IsChar(key, {103})
           THEN app' = IF app.pending_gg
                       THEN Disarm(handle_search_modal_select_first(app))
                       ELSE [app EXCEPT !.pending_gg = TRUE]
       ELSE IF IsChar(key, {71}) THEN app' = handle_search_modal_select_last(Disarm(app))
       ELSE IF IsChar(key, {75})
           THEN app' = IF app.is_elevated
                       THEN kill_selected_locking_process(Disarm(app))
                       ELSE Disarm(app)
       ELSE IF key.code = "Backspace"
           THEN app' = handle_search_modal_backspace(Disarm(app))
       ELSE app' = Disarm(app)
    /\ ui' = Handled(key, "HandleSearch", app.pending_gg, FALSE, None)
    /\ UNCHANGED list_vars

\* handle_key_event
handle_key_event(key) ==
    IF IsSome(app.modal)
        THEN IF Unwrap(app.modal).kind = "KillConfirmation" THEN KillConfirmationKey(key)
             ELSE IF app.handle_search_input_mode THEN HandleSearchInputKey(key)
             ELSE HandleSearchKey(key)
    ELSE IF app.search_mode THEN SearchModeKey(key)
    ELSE IF key.modifiers = "CONTROL" /\ IsChar(key, {100, 117}) THEN PageKey(key)
    ELSE PlainKey(key)

\* run_app: a key press is read and handled, until a key quits.  The one
\* character typed into the search box and into the finder's input is q.
KeyPress(key) ==
    /\ ~ui.quit
    /\ (key.code = "Char" /\ key.c # 113)
           => IF IsSome(app.modal)
              THEN ~(ModalKind(app.modal) = "HandleSearch"
                        /\ app.handle_search_input_mode)
              ELSE ~app.search_mode
    /\ handle_key_event(key)

\* the sources that fail during one refresh_all_tabs: none, this domain's,
\* the two others
PollFailures == {{}, {domain}, Domains \ {domain}}

\* run_app on AppEvent::PollData: refresh_all_tabs calls the three sources,
\* and updates the list of each one that answered Ok
PollData ==
    /\ ~ui.quit
    /\ \E failed \in PollFailures :
          /\ IF domain \in failed THEN UNCHANGED list_vars
             ELSE \E s \in AppSnapshots(domain) : Update(s)
          /\ ui' = [NoKey EXCEPT !.fetch = {<<d, d \notin failed>> : d \in Domains}]
    /\ app' = app

\* time passes while run_app waits
Wait ==
    /\ ~ui.quit
    /\ Elapse
    /\ app' = app
    /\ ui' = NoKey

\* The App under key presses and data polls.
NextApp ==
    \/ \E key \in Keys : KeyPress(key) /\ UNCHANGED rt
    \/ PollData /\ UNCHANGED rt
    \/ Wait /\ UNCHANGED rt

SpecApp == InitApp /\ [][NextApp]_vars

(***************************************************************************)
(* run_app: the loop, the channel and the three timer producers            *)
(***************************************************************************)
\* the three interval tasks of main and the event each one sends
TimerClasses == {"Tick", "PollData", "MetricsTick"}

\* the keys pressed in the runs of the loop: Tab, and q / f
LoopKeys ==
    { Key("Tab", 0, "NONE") } \cup { Key("Char", c, "NONE") : c \in {113, 47, 102} }

\* a bug: recv returns the newest message of the channel
Received_newest(chan) == Len(chan)

\* the position in the channel of the message rx.recv() returns: the oldest
Received(chan) == 1

\* a bug: the producer goes on after a failed send
Send_after_failure(class) ==
    /\ class \in rt.alive
    /\ Len(rt.sent) < MaxSent
    /\ Len(rt.chan) < ChannelCapacity
    /\ rt' = [rt EXCEPT !.chan = Append(@, class), !.sent = Append(@, class)]
    /\ UNCHANGED <<list_vars, app, ui>>

\* a producer task: interval.tick().await, then send(event).await, which
\* waits while the channel is full, and fails once the receiver is dropped:
\* the task then leaves its loop
Send(class) ==
    /\ class \in rt.alive
    /\ IF rt.pc = "closed"
       THEN rt' = [rt EXCEPT !.alive = @ \ {class}]
       ELSE /\ Len(rt.sent) < MaxSent
            /\ Len(rt.chan) < ChannelCapacity
            /\ rt' = [rt EXCEPT !.chan = Append(@, class), !.sent = Append(@, class)]
    /\ UNCHANGED <<list_vars, app, ui>>

\* main after run_app has returned: the terminal is restored and main ends,
\* which drops the receiver
MainReturns ==
    /\ rt.pc = "done"
    /\ rt' = [rt EXCEPT !.pc = "closed"]
    /\ UNCHANGED <<list_vars, app, ui>>

\* run_app: terminal.draw at the top of the loop
Draw ==
    /\ rt.pc = "draw"
    /\ rt' = [rt EXCEPT !.pc = "select", !.work = << >>]
    /\ UNCHANGED <<list_vars, app, ui>>

\* run_app on AppEvent::MetricsTick: App::update_metrics
MetricsTick ==
    /\ IF domain = "locker" THEN \E k \in MetricSamples : MetricsPoll(k)
       ELSE UNCHANGED list_vars
    /\ app' = app
    /\ ui' = NoKey

\* a bug: a tick refreshes the tabs as a data poll does
Apply_poll_on_tick(class) ==
    IF class = "MetricsTick" THEN MetricsTick ELSE PollData

\* the arm of run_app's match for an event of the class
Apply(class) ==
    IF class = "PollData" THEN PollData
    ELSE IF class = "MetricsTick" THEN MetricsTick
    ELSE UNCHANGED <<list_vars, app>> /\ ui' = NoKey

\* a bug: after an event the loop receives again without drawing a frame
Recv_without_frame ==
    /\ rt.pc = "select"
    /\ rt.chan # << >>
    /\ Apply(Head(rt.chan))
    /\ rt' = [rt EXCEPT !.chan = Tail(@), !.applied = Append(@, Head(rt.chan)),
                        !.work = Append(@, "event")]

\* run_app: the first branch of select!, rx.recv() has a message
Recv ==
    /\ rt.pc = "select"
    /\ rt.chan # << >>
    /\ Apply(rt.chan[Received(rt.chan)])
    /\ rt' = [rt EXCEPT !.pc = "draw",
                        !.chan = [i \in 1..(Len(@) - 1) |->
                                     IF i < Received(rt.chan) THEN @[i] ELSE @[i + 1]],
                        !.applied = Append(@, rt.chan[Received(rt.chan)]),
                        !.work = Append(@, "event")]

\* run_app: the second branch of select!, a key press was read and handled
KeyBranch(key) ==
    /\ rt.pc = "select"
    /\ KeyPress(key)
    /\ rt' = [rt EXCEPT !.pc = IF ui'.quit THEN "done" ELSE "draw",
                        !.work = Append(@, "key")]

\* run_app: the second branch of select!, no key press within TICK_RATE_MS
NoKeyBranch ==
    /\ rt.pc = "select"
    /\ Wait
    /\ rt' = [rt EXCEPT !.pc = "draw"]

\* run_app with the three producers of main
NextLoop ==
    \/ \E class \in TimerClasses : Send(class)
    \/ Draw
    \/ Recv
    \/ \E key \in LoopKeys : KeyBranch(key)
    \/ NoKeyBranch
    \/ MainReturns

SpecLoop == InitApp /\ [][NextLoop]_vars

(***************************************************************************)
(* Properties                                                              *)
(***************************************************************************)
AllSnapshots(d) == Snapshots(d) \cup {BigSnapshot(d)}
AllQueries == Queries \cup NavQueries \cup PageQueries

\* C1: update(S) issued when the previous update call was also update(S) is
\* a no-op whatever the debounce state: it is not accepted and entities,
\* cursor, selected identity, persisted filter, sort key and order stay as
\* they were.
C1_RepeatedUpdateIsNoOp ==
    [][\A s \in AllSnapshots(domain) :
          (hist.prev_snap = Some(s) /\ Update(s))
              => /\ last'.res = "unchanged"
                 /\ UNCHANGED <<entities, list_state, selected, active_filter,
                                sort_key, sort_order>>]_vars

\* a repeated update(S) on a loaded list has just been ignored, inside the
\* debounce window
C1_Witness ==
    /\ last.op = "update"
    /\ last.nth = "repeat"
    /\ last.res = "unchanged"
    /\ entities # << >>
    /\ now - last_navigation < NAVIGATION_DEBOUNCE

\* the same outside the debounce window
C1_WitnessOutsideWindow ==
    /\ last.op = "update"
    /\ last.nth = "repeat"
    /\ last.res = "unchanged"
    /\ entities # << >>
    /\ now - last_navigation >= NAVIGATION_DEBOUNCE

\* What I1 asks of a reconciliation against the view filtered by the
\* persisted filter af2 of the list ents2, for the selected identity sel held
\* before: the new cursor ls2 and the new selected identity sel2.
ReconciledTo(d, ents2, af2, sel, ls2, sel2) ==
    LET view == get_filtered_indices(d, ents2, af2, << >>)
        pos == IF IsSome(sel) THEN Position(d, ents2, view, Unwrap(sel), 0)
               ELSE Len(view)
    IN  IF pos < Len(view) THEN sel2 = sel /\ ls2 = Some(pos)
        ELSE IF view # << >>
        THEN ls2 = Some(0) /\ sel2 = IdentityAt(d, ents2, view, 0)
        ELSE ls2 = None /\ sel2 = None

\* C2: after any accepted update, a selected identity that is in the
\* filtered view is kept with the cursor on its new index; otherwise the
\* cursor is 0 and the selection the first element of the filtered view, or
\* both are none when the view is empty.
C2_AcceptedUpdateReconciles ==
    [][\A s \in AllSnapshots(domain) :
          (last'.op = "update" /\ last'.res = "accepted" /\ Update(s))
              => ReconciledTo(domain, entities', active_filter', selected,
                              list_state', selected')]_vars

\* C3: an update rejected by the debounce right after a navigation and
\* issued again with the same snapshot after the window has elapsed, with no
\* operation in between, is accepted and the entities become those of the
\* snapshot.
C3_ReissuedAfterWindowAccepted ==
    [][\A s \in AllSnapshots(domain) :
          (/\ hist.debounced_after_nav = Some(s)
           /\ now - last_navigation >= NAVIGATION_DEBOUNCE
           /\ Update(s))
              => /\ last'.res = "accepted"
                 /\ entities' = sort_entities(domain, sort_key, sort_order, s)]_vars

\* C4: an update rejected by the debounce rule or by the fingerprint rule
\* changes no field of the list state.
C4_RejectedUpdateChangesNothing ==
    [][\A s \in AllSnapshots(domain) :
          (last'.op = "update" /\ last'.res # "accepted" /\ Update(s))
              => UNCHANGED <<entities, list_state, selected, active_filter, sort_key,
                             sort_order, last_navigation, last_data_hash,
                             is_initial_load>>]_vars

\* C5: once an update has been accepted, an update with a different
\* fingerprint issued less than 50 ms after the last navigation stamp is
\* rejected, and entities, cursor and selected identity stay unchanged.
C5_DebouncedUpdateRejected ==
    [][\A s \in AllSnapshots(domain) :
          (/\ hist.ever_accepted
           /\ now - last_navigation < NAVIGATION_DEBOUNCE
           /\ last'.op = "update"
           /\ compute_data_hash(domain, s) # last_data_hash
           /\ Update(s))
              => /\ last'.res = "debounced"
                 /\ UNCHANGED <<entities, list_state, selected>>]_vars

\* a new snapshot has just been rejected at the instant of a navigation on
\* a loaded list
C5_Witness ==
    /\ last.op = "update"
    /\ last.res = "debounced"
    /\ hist.ever_accepted
    /\ entities # << >>
    /\ last_navigation = now
    /\ now > 0

\* C6: the first update ever issued is accepted however recent the last
\* navigation is, and the debounce rejects an update only after an update
\* has been accepted.
C6_FirstUpdateAccepted ==
    [][\A s \in AllSnapshots(domain) :
          /\ (hist.prev_snap = None /\ Update(s))
                => /\ last'.res = "accepted"
                   /\ entities' = sort_entities(domain, sort_key, sort_order, s)
          /\ (last'.op = "update" /\ last'.res = "debounced" /\ Update(s))
                => hist.ever_accepted]_vars

\* the first update has just been accepted at the instant of a navigation
\* on the still-empty list
C6_Witness ==
    /\ last.op = "update"
    /\ last.nth = "first"
    /\ last.res = "accepted"
    /\ entities # << >>
    /\ last_navigation = now
    /\ now > 0

\* the list s is in the order of the comparator of key k and order o
IsSorted(d, k, o, s) ==
    \A i \in 1..(Len(s) - 1) : SortCmp(d, k, o, s[i], s[i + 1]) <= 0

\* C7: in the state reached after every accepted update, filter change and
\* sort change, interleaved with navigation and metrics polls, the entity list is
\* sorted by the active sort key and order.
C7_EntitiesSorted ==
    (\/ last.op = "update" /\ last.res = "accepted"
     \/ last.op \in {"set_filter", "clear_filter", "cycle_sort_key",
                     "toggle_sort_order"})
        => IsSorted(domain, sort_key, sort_order, entities)

\* The view the transient query q and the persisted filter af select from
\* ents: the entities matching the lowercased q when q is non-empty,
\* otherwise those matching af, otherwise all; as 0-based indices in order.
ViewQuery(af, q) == IF q # << >> THEN <<ToLower(q)>> ELSE af

RECURSIVE RefViewFrom(_, _, _, _)
RefViewFrom(d, ents, f, i) ==
    IF i = 0 THEN << >>
    ELSE IF f = << >> \/ matches_filter(d, ents[i], f[1])
    THEN Append(RefViewFrom(d, ents, f, i - 1), i - 1)
    ELSE RefViewFrom(d, ents, f, i - 1)

RefView(d, ents, af, q) == RefViewFrom(d, ents, ViewQuery(af, q), Len(ents))

\* the entity at cursor ls of the view v, if any
RefAt(ents, v, ls) ==
    IF ls # << >> /\ ls[1] < Len(v) THEN <<ents[v[ls[1] + 1] + 1]>> ELSE << >>

\* for the query q, the filtered-view computation and get_selected answer
\* from the view v
C8_ViewIs(q, v) ==
    /\ get_filtered_indices(domain, entities, active_filter, q) = v
    /\ filtered_entities(domain, entities, active_filter, q)
            = [j \in 1..Len(v) |-> <<v[j], entities[v[j] + 1]>>]
    /\ get_selected(domain, entities, active_filter, list_state, q)
            = RefAt(entities, v, list_state)

\* the filtered-view computation and get_selected answer from the view of
\* the transient query when it is non-empty, else of the persisted filter
C8_ViewsFollowQuery ==
    \A q \in Queries :
        C8_ViewIs(q, RefView(domain, entities, active_filter, q))

\* the step is what the navigation operation op does from cursor i on the
\* view v, and it leaves the persisted filter alone
C8_LandsOn(op, v, i) ==
    /\ active_filter' = active_filter
    /\ IF v = << >> THEN UNCHANGED <<list_state, selected>>
       ELSE /\ list_state' = <<NewIndex(op, i, Len(v))>>
            /\ selected' =
                  IF list_state'[1] < Len(v)
                  THEN <<Identity(domain, entities[v[list_state'[1] + 1] + 1])>>
                  ELSE << >>

\* a navigation operation moves on the view of the transient query when it
\* is non-empty, else of the persisted filter, and leaves the persisted
\* filter alone
C8_NavigationFollowsQuery ==
    \A q \in NavQueries : \A op \in NavOps(domain) :
        (last'.op = op /\ last'.tq = (q # << >>) /\ Navigate(op, q)) =>
            C8_LandsOn(op, RefView(domain, entities, active_filter, q),
                       IF list_state = << >> THEN 0 ELSE list_state[1])

\* C8: every operation that takes a transient query (filtered view,
\* navigation, get_selected) works on the view filtered by the lowercased
\* query when it is non-empty and by the persisted filter when it is empty,
\* and none of them modifies the persisted filter.
C8_TransientQueryPrecedence ==
    []C8_ViewsFollowQuery /\ [][C8_NavigationFollowsQuery]_vars

\* a navigation with a non-empty transient query has just selected an
\* entity that the persisted filter hides
C8_Witness ==
    /\ last.op \in NavOps(domain)
    /\ last.tq
    /\ IsSome(active_filter)
    /\ IsSome(selected)
    /\ IsSome(list_state)
    /\ \A j \in 1..Len(entities) :
          Identity(domain, entities[j]) = Unwrap(selected)
              => ~matches_filter(domain, entities[j], Unwrap(active_filter))

\* C9: set_filter and clear_filter take effect whatever the time since the
\* last navigation, reconcile the selection against the new filtered view,
\* and do not stamp last_navigation.
C9_FilterChangeImmediate ==
    [][/\ \A q \in AllQueries :
            (last'.op = "set_filter" /\ SetFilter(q))
                => /\ active_filter' = (IF q = << >> THEN None ELSE Some(ToLower(q)))
                   /\ ReconciledTo(domain, entities', active_filter', selected,
                                   list_state', selected')
                   /\ UNCHANGED <<last_navigation, entities>>
       /\ (last'.op = "clear_filter" /\ ClearFilter)
                => /\ active_filter' = None
                   /\ ReconciledTo(domain, entities', active_filter', selected,
                                   list_state', selected')
                   /\ UNCHANGED <<last_navigation, entities>>]_vars

\* C10: after a navigation operation on a non-empty filtered view of length
\* n, from any reachable state, the cursor lies in 0..n-1 and the selected
\* identity is that of the entity at the cursor.
C10_NavigationTotal ==
    [][\A q \in AllQueries : \A op \in NavOps(domain) :
          LET v == get_filtered_indices(domain, entities, active_filter, q)
          IN  (last'.op = op /\ last'.tq = (q # << >>) /\ Navigate(op, q) /\ v # << >>)
                  => /\ IsSome(list_state')
                     /\ Unwrap(list_state') \in 0..(Len(v) - 1)
                     /\ selected' = IdentityAt(domain, entities, v, Unwrap(list_state'))]_vars

\* from cursor i on the view v, select_next / select_prev moves the cursor
\* by one with wraparound and selects the entity at the new cursor
C11_MovesOn(op, v, i) ==
    (v # << >> /\ i < Len(v))
        => /\ list_state' = <<IF op = "select_next"
                               THEN (IF i = Len(v) - 1 THEN 0 ELSE i + 1)
                               ELSE (IF i = 0 THEN Len(v) - 1 ELSE i - 1)>>
           /\ selected' = <<Identity(domain, entities[v[list_state'[1] + 1] + 1])>>

C11_NextPrevMove ==
    \A q \in AllQueries : \A op \in {"select_next", "select_prev"} :
        (/\ last'.op = op
         /\ last'.tq = (q # << >>)
         /\ IsSome(list_state)
         /\ Navigate(op, q))
            => C11_MovesOn(op, RefView(domain, entities, active_filter, q),
                           Unwrap(list_state))

\* this step is the select_prev(q) that directly follows a select_next(q)
\* issued with the cursor on a row of the view
C11_PrevAfterNext(q) ==
    /\ last.op = "select_next"
    /\ IsSome(hist.nav_from)
    /\ last.tq = (q # << >>)
    /\ last'.op = "select_prev"
    /\ Navigate("select_prev", q)

\* select_prev after select_next puts the cursor back, and the selection
\* too when it was that of the row under the cursor
C11_RoundTripOn(from, v) ==
    /\ list_state' = from.list_state
    /\ (from.selected = IdentityAt(domain, entities, v, Unwrap(from.list_state)))
            => selected' = from.selected

\* C11 (amended): on a non-empty filtered view of length n with the cursor
\* at i < n, select_next moves the cursor to (i+1) mod n and select_prev to
\* (i-1) mod n, the selected identity becomes that of the entity at the new
\* index, and select_next followed by select_prev restores the cursor, and
\* the selection when it was the identity of the entity under the cursor.
C11_NextPrevWrap ==
    [][/\ C11_NextPrevMove
       /\ \A q \in NavQueries :
            C11_PrevAfterNext(q)
                => C11_RoundTripOn(Unwrap(hist.nav_from),
                                   RefView(domain, entities, active_filter, q))]_vars

\* select_next from the last row of a view of more than one row has just
\* wrapped to the first row
C11_Witness ==
    /\ last.op = "select_next"
    /\ list_state = Some(0)
    /\ IsSome(selected)
    /\ IsSome(hist.nav_from)
    /\ Unwrap(hist.nav_from).list_state # Some(0)

\* C11 as stated: select_next followed by select_prev restores cursor and
\* selection from every state with the cursor on a row of the view.
C11_NextPrevRestores ==
    [][/\ C11_NextPrevMove
       /\ \A q \in NavQueries :
            C11_PrevAfterNext(q)
                => /\ list_state' = Unwrap(hist.nav_from).list_state
                   /\ selected' = Unwrap(hist.nav_from).selected]_vars

\* the index the claim gives for the page and end operations from cursor i
\* on a view of n rows
C12_Target(op, i, n) ==
    CASE op = "select_page_up" -> IF i - PageSize > 0 THEN i - PageSize ELSE 0
      [] op = "select_page_down" -> IF i + PageSize < n - 1 THEN i + PageSize ELSE n - 1
      [] op = "select_first" -> 0
      [] op = "select_last" -> n - 1

C12_MovesOn(op, v, i) ==
    (i < Len(v))
        => /\ list_state' = <<C12_Target(op, i, Len(v))>>
           /\ list_state'[1] \in 0..(Len(v) - 1)
           /\ selected' = <<Identity(domain, entities[v[list_state'[1] + 1] + 1])>>

\* C12: on a filtered view of length n with the cursor at i < n,
\* select_page_up moves the cursor to max(i-10, 0), select_page_down to
\* min(i+10, n-1), select_first to 0 and select_last to n-1, never wrapping
\* or leaving 0..n-1, and the selected identity becomes that of the entity at
\* the new index.
C12_PageAndEndsClamp ==
    [][\A q \in AllQueries :
       \A op \in {"select_page_up", "select_page_down", "select_first", "select_last"} :
          (/\ last'.op = op
           /\ last'.tq = (q # << >>)
           /\ IsSome(list_state)
           /\ Navigate(op, q))
              => C12_MovesOn(op, RefView(domain, entities, active_filter, q),
                             Unwrap(list_state))]_vars

\* select_page_down on a filtered view shorter than a page, cut from a list
\* longer than a page, has just stopped on the last row of the view
C12_Witness ==
    /\ last.op = "select_page_down"
    /\ ~last.tq
    /\ Len(entities) > PageSize
    /\ IsSome(active_filter)
    /\ Len(get_filtered_indices(domain, entities, active_filter, << >>)) > 1
    /\ list_state
          = Some(Len(get_filtered_indices(domain, entities, active_filter, << >>)) - 1)
    /\ IsSome(selected)

\* select_page_up from a row beyond the first page has just moved up by a
\* page without reaching the first row
C12_WitnessPageUp ==
    /\ last.op = "select_page_up"
    /\ ~last.tq
    /\ active_filter = None
    /\ list_state = Some(1)
    /\ selected = IdentityAt(domain, entities,
                             get_filtered_indices(domain, entities, None, << >>), 1)

\* the cyclic order of the sort keys of each domain
C13_Cycle(d) ==
    IF d = "locker" THEN <<"Name", "Pid", "Cpu", "Memory">>
    ELSE IF d = "controller" THEN <<"Name", "Status", "Type">>
    ELSE <<"State", "Pid", "Protocol", "ProcessName">>

\* the key after k in the cycle c
C13_After(c, k) ==
    LET j == CHOOSE j \in 1..Len(c) : c[j] = k
    IN  c[(j % Len(c)) + 1]

RECURSIVE C13_Calls(_, _, _)
\* the key after n calls of cycle_sort_key from key k
C13_Calls(d, k, n) == IF n = 0 THEN k ELSE C13_Calls(d, SortKeyNext(d, k), n - 1)

\* the list after is the list before, re-sorted by key and order
C13_Resorted(before, after, key, order) ==
    /\ Len(after) = Len(before)
    /\ {after[j] : j \in 1..Len(after)} = {before[j] : j \in 1..Len(before)}
    /\ IsSorted(domain, key, order, after)

\* a selected identity that is in the view v stays selected, with the
\* cursor on its row of v
C13_SelectionKept(ents, v) ==
    \A j \in 1..Len(v) :
        (IsSome(selected) /\ Identity(domain, ents[v[j] + 1]) = Unwrap(selected))
            => selected' = selected /\ list_state' = <<j - 1>>

\* C13: cycle_sort_key advances the key in the domain's cyclic order (so
\* as many calls as there are keys restore it), toggle_sort_order flips the
\* order (two calls restore it); each re-sorts the whole list and keeps the
\* selected identity, with the cursor on its new index, when it is in the
\* filtered view.
C13_SortChangeResorts ==
    [][/\ (last'.op = "cycle_sort_key" /\ CycleSortKey)
            => /\ sort_key' = C13_After(C13_Cycle(domain), sort_key)
               /\ sort_order' = sort_order
               /\ C13_Calls(domain, sort_key, Len(C13_Cycle(domain))) = sort_key
               /\ \A n \in 1..(Len(C13_Cycle(domain)) - 1) :
                     C13_Calls(domain, sort_key, n) # sort_key
               /\ C13_Resorted(entities, entities', sort_key', sort_order')
               /\ C13_SelectionKept(entities',
                                    RefView(domain, entities', active_filter, << >>))
       /\ (last'.op = "toggle_sort_order" /\ ToggleSortOrder)
            => /\ sort_order' # sort_order
               /\ sort_order' \in {"Ascending", "Descending"}
               /\ SortOrderToggle(sort_order') = sort_order
               /\ sort_key' = sort_key
               /\ C13_Resorted(entities, entities', sort_key', sort_order')
               /\ C13_SelectionKept(entities',
                                    RefView(domain, entities', active_filter, << >>))]_vars

\* cycle_sort_key from Name to Pid has just moved the selected process 2
\* to the middle row, and the cursor with it
C13_Witness ==
    /\ last.op = "cycle_sort_key"
    /\ domain = "locker"
    /\ sort_key = "Pid"
    /\ Len(entities) = 3
    /\ selected = Some(2)
    /\ list_state = Some(1)
    /\ entities[2].pid = 2

\* the step leaves the list state as set_filter("") would: no persisted
\* filter, the selection set_filter("") computes, nothing else changed
C14_AsSetFilterEmpty(sel) ==
    /\ active_filter' = FilterOf(<< >>)
    /\ list_state' = sel.list_state
    /\ selected' = sel.selected
    /\ UNCHANGED <<entities, sort_key, sort_order, last_data_hash, is_initial_load,
                   last_navigation>>

\* C14: set_filter(q) sets the persisted filter to none when q is empty and
\* to lowercase(q) otherwise; clear_filter leaves the list state as
\* set_filter("") would; after clear_filter the filtered view under an empty
\* transient query is the whole entity list.
C14_SetAndClearFilter ==
    [][/\ \A q \in AllQueries :
            (last'.op = "set_filter" /\ SetFilter(q))
                => active_filter' = (IF Len(q) = 0 THEN << >>
                                     ELSE <<[j \in 1..Len(q) |->
                                               IF q[j] \in 65..90 THEN q[j] + 32
                                               ELSE q[j]]>>)
       /\ (last'.op = "clear_filter" /\ ClearFilter)
            => /\ C14_AsSetFilterEmpty(
                      update_selection(domain, entities, FilterOf(<< >>),
                                       list_state, selected))
               /\ get_filtered_indices(domain, entities', active_filter', << >>)
                      = [j \in 1..Len(entities') |-> j - 1]]_vars

\* set_filter("B") has just stored the filter "b"
C14_Witness ==
    /\ last.op = "set_filter"
    /\ active_filter = Some(<<98>>)
    /\ entities # << >>

\* clear_filter has just removed the filter of a loaded list
C14_WitnessClear ==
    /\ last.op = "clear_filter"
    /\ active_filter = None
    /\ entities # << >>
    /\ IsSome(selected)

\* C15: every navigation operation stamps last_navigation with the current
\* time, also when the filtered view is empty; on an empty filtered view it
\* changes nothing else.
C15_NavigationStamps ==
    [][\A q \in NavQueries : \A op \in NavOps(domain) :
          (last'.op = op /\ last'.tq = (q # << >>) /\ Navigate(op, q))
              => /\ last_navigation' = now
                 /\ \/ UNCHANGED <<list_state, selected, entities, active_filter,
                                    sort_key, sort_order, last_data_hash,
                                    is_initial_load>>
                    \/ RefView(domain, entities, active_filter, q) # << >>]_vars

\* a navigation on a loaded list whose filter matches nothing has just
\* moved the stamp forward
C15_Witness ==
    /\ last.op \in NavOps(domain)
    /\ ~last.tq
    /\ entities # << >>
    /\ get_filtered_indices(domain, entities, active_filter, << >>) = << >>
    /\ last_navigation = now
    /\ now > 0

\* the rank of a status in the order the claim gives: running, then
\* stopped, then every other status
C16_Rank(status) ==
    IF status = "Running" THEN 0 ELSE IF status = "Stopped" THEN 1 ELSE 2

\* C16: under sort by status ascending, every running service is listed
\* before every stopped service and every stopped service before the
\* services in every other status.
C16_StatusOrder ==
    (domain = "controller" /\ sort_key = "Status" /\ sort_order = "Ascending")
        => \A i \in 1..Len(entities) : \A j \in i..Len(entities) :
              C16_Rank(entities[i].status) <= C16_Rank(entities[j].status)

\* the modal a kill intent on the process list opens: the confirmation for
\* a selected process, when the tab is the process list and the App is
\* elevated
C17_KillIntent(m2) ==
    /\ app.current_tab = "locker"
    /\ app.is_elevated
    /\ \E p \in SelectedProcesses :
          /\ IsSome(p)
          /\ m2 = Some(KillConfirmation(Unwrap(p).pid, Unwrap(p).name))

\* the finder as it opens: empty input, no results, idle
C17_FinderOpened == Some(HandleSearch(<< >>, << >>, 0, FALSE, None, FALSE, None))

\* the modal after a step that began with the finder m open: still the
\* finder, and not loading; or the confirmation for the selected result; or
\* closed
C17_FromFinder(m, m2) ==
    \/ m2 = None
    \/ /\ ModalKind(m2) = "HandleSearch"
       /\ ~Unwrap(m2).loading
    \/ /\ Unwrap(m).selected < Len(Unwrap(m).results)
       /\ m2 = Some(KillConfirmation(Unwrap(m).results[Unwrap(m).selected + 1].pid,
                                     Unwrap(m).results[Unwrap(m).selected + 1].name))

C17_Allowed(m, m2) ==
    IF m = None
        THEN m2 = None \/ m2 = C17_FinderOpened \/ C17_KillIntent(m2)
    ELSE IF ModalKind(m) = "KillConfirmation"
        THEN m2 = m \/ m2 = None
    ELSE C17_FromFinder(m, m2)

\* C17: every step takes the modal along one of the transitions
\* Closed -> KillConfirmation{pid, name} of the selected process,
\* Closed -> HandleSearch (empty input, no results, idle),
\* HandleSearch -> HandleSearch (not loading once the submit is handled),
\* HandleSearch -> KillConfirmation of the selected result,
\* KillConfirmation -> Closed and HandleSearch -> Closed, or leaves it as it
\* is: KillConfirmation never goes back to HandleSearch and no modal is opened
\* over an open one.
C17_ModalTransitions == [][C17_Allowed(app.modal, app'.modal)]_vars

\* the confirmation for the second result of the finder was opened from the
\* finder
C17_Witness ==
    /\ ui.route = "HandleSearch"
    /\ app.modal = Some(KillConfirmation(1, <<97>>))

\* the confirmation was opened from the process list
C17_WitnessList ==
    /\ ui.route = "plain"
    /\ ModalKind(app.modal) = "KillConfirmation"

\* a confirmation opened from the finder was closed
C17_WitnessClosed ==
    /\ ui.route = "KillConfirmation"
    /\ app.modal = None

\* C18: while the HandleSearch modal is open, in any of its states, pressing
\* Escape closes the modal.
C18_EscapeClosesFinder ==
    [][ModalKind(app.modal) = "HandleSearch" /\ KeyPress(Key("Esc", 0, "NONE"))
            => app'.modal = None]_vars

\* C19: once the chord flag is armed, a press of any key other than the chord
\* key disarms it, in every keymap and mode.
C19_OtherKeyDisarms ==
    [][\A key \in Keys :
          app.pending_gg /\ key # Key("Char", 103, "NONE") /\ KeyPress(key)
              => ~app'.pending_gg]_vars

\* C19: the second chord key of the sequence chord key, other key, chord key
\* makes no jump: a press of the chord key that follows the press of another
\* key moves no cursor.
C19_NoJumpAfterOtherKey ==
    [][ui.key # NoKey.key /\ ui.key # Key("Char", 103, "NONE")
            /\ KeyPress(Key("Char", 103, "NONE"))
            => UNCHANGED <<list_state, selected, last_navigation>>]_vars

\* the list state is as it was, or the step confirmed a kill that succeeded
\* and the list is as the refresh of the confirmation left it
C20_OnlyConfirmRefreshes ==
    \/ UNCHANGED <<entities, list_state, selected, last_data_hash, is_initial_load>>
    \/ /\ ModalKind(app.modal) = "KillConfirmation"
       /\ IsChar(ui'.key, {121, 89})
       /\ ui'.call # None
       /\ ui'.call[1].ok

\* C20: a key pressed while a modal is open does not quit, not even 'q', and
\* performs no per-tab action: the tab, the search mode and query, the sort,
\* the filter and the navigation stamp stay as they are, no service is
\* toggled, and the list changes only by the refresh that a confirmed kill
\* makes.
C20_ModalTakesEveryKey ==
    [][IsSome(app.modal) /\ ui'.key # NoKey.key
          => /\ ~ui'.quit
             /\ app'.current_tab = app.current_tab
             /\ app'.search_mode = app.search_mode
             /\ app'.search_query = app.search_query
             /\ UNCHANGED <<sort_key, sort_order, active_filter, last_navigation, domain>>
             /\ ui'.call # None => ui'.call[1].fn = "kill_process"
             /\ C20_OnlyConfirmRefreshes]_vars

\* 'q' was pressed on the confirmation: it closed the modal and did not quit
C20_Witness ==
    /\ ui.key = Key("Char", 113, "NONE")
    /\ ui.route = "KillConfirmation"
    /\ app.modal = None
    /\ ~ui.quit

\* Tab was pressed on the finder's result list, on a loaded list
C20_WitnessTab ==
    /\ ui.key = Key("Tab", 0, "NONE")
    /\ ui.route = "HandleSearch"
    /\ entities # << >>

\* the texts that the other outcomes write to status_message
C21_OtherTexts ==
    {"Running without admin - some actions unavailable", "Process {} killed",
     "Failed to kill process: {}"}

\* C21: when toggle_service fails, the failure is turned into a status text:
\* after the key that made the call, status_message holds a text, and that
\* text is the toggle's, none of the texts of the other outcomes; the key
\* handler returns without quitting.
C21_ToggleFailureReported ==
    [][(ui'.call # None /\ ui'.call[1].fn = "toggle_service" /\ ~ui'.call[1].ok)
          => /\ IsSome(app'.status_message)
             /\ Unwrap(app'.status_message)[1] \notin C21_OtherTexts
             /\ ~ui'.quit]_vars

\* C22: when kill_process fails on confirm, status_message is set to the
\* failure text, the modal is closed, no snapshot source is called, the list
\* state is unchanged, and the key handler returns without quitting.
C22_KillFailureCaught ==
    [][(ui'.call # None /\ ui'.call[1].fn = "kill_process" /\ ~ui'.call[1].ok)
          => /\ IsSome(app'.status_message)
             /\ Unwrap(app'.status_message)[1] = "Failed to kill process: {}"
             /\ app'.modal = None
             /\ ui'.fetch = {}
             /\ UNCHANGED list_vars
             /\ ~ui'.quit]_vars

\* a kill was confirmed on a loaded list and failed
C22_Witness ==
    /\ ui.call # None
    /\ ui.call[1].fn = "kill_process"
    /\ ~ui.call[1].ok
    /\ app.status_message = Some(<<"Failed to kill process: {}", 5>>)
    /\ entities # << >>

\* C23: after a successful kill the process source is called in the same
\* step, before the next event or key is handled, whichever tab is current
\* and whether the confirmation was opened from the process list or from a
\* result of the finder.
C23_KillRefetchesProcesses ==
    [][(ui'.call # None /\ ui'.call[1].fn = "kill_process" /\ ui'.call[1].ok)
          => \E ok \in BOOLEAN : <<"locker", ok>> \in ui'.fetch]_vars

\* C24: a step that calls toggle_service also calls the service source.
C24_ToggleRefetchesServices ==
    [][(ui'.call # None /\ ui'.call[1].fn = "toggle_service")
          => \E ok \in BOOLEAN : <<"controller", ok>> \in ui'.fetch]_vars

\* this domain's list state as a failed source call has to leave it
C25_ListKept ==
    UNCHANGED <<entities, list_state, selected, last_data_hash, is_initial_load,
                active_filter, sort_key, sort_order, last_navigation, prev_cpu_times>>

\* C25: when the call of this domain's snapshot source fails, on a data poll,
\* on a manual refresh or on the refresh after a kill, the domain's list
\* state is unchanged (entities, selection, fingerprint, filter, sort) and
\* the failure writes nothing to status_message: it is as before the step, or
\* the text of the kill that preceded the refresh; on a data poll all three
\* sources are called, and the list of a source that answered Ok is updated
\* with its snapshot although other sources failed.
C25_SourceFailureSwallowed ==
    [][/\ <<domain, FALSE>> \in ui'.fetch
          => /\ C25_ListKept
             /\ app'.status_message =
                    IF ui'.call = None THEN app.status_message
                    ELSE Some(<<"Process {} killed", ui'.call[1].arg[1]>>)
       /\ (ui'.fetch # {} /\ ui'.key = NoKey.key)
          => /\ \A d \in Domains : \E ok \in BOOLEAN : <<d, ok>> \in ui'.fetch
             /\ <<domain, TRUE>> \in ui'.fetch
                   => \E s \in AppSnapshots(domain) : Update(s)]_vars

\* a data poll on a loaded list had its own source fail
C25_Witness ==
    /\ ui.key = NoKey.key
    /\ <<domain, FALSE>> \in ui.fetch
    /\ entities # << >>

\* a data poll updated this list while the two other sources failed
C25_WitnessOthers ==
    /\ ui.key = NoKey.key
    /\ ui.fetch = {<<d, d = domain>> : d \in Domains}
    /\ entities # << >>

\* the refresh after a successful kill failed on a loaded list
C25_WitnessKill ==
    /\ ui.call # None
    /\ ui.call[1].ok
    /\ <<domain, FALSE>> \in ui.fetch
    /\ entities # << >>

\* The App while run_app keeps applying events: the data poll recurs, and
\* time passes.
SpecAppLive ==
    /\ InitApp
    /\ [][NextApp]_vars
    /\ WF_vars(PollData /\ UNCHANGED rt)
    /\ WF_vars(Wait /\ UNCHANGED rt)

\* C26: a status message is short-lived: in every run in which the loop
\* keeps applying events, a status message that the outcome of a kill has set
\* is eventually cleared, unless a key quits.
C26_StatusCleared ==
    (ui.call # None /\ IsSome(app.status_message)
        /\ Unwrap(app.status_message)[1] \in {"Process {} killed",
                                              "Failed to kill process: {}"})
        ~> (app.status_message = None \/ ui.quit)

\* C27: the events of the three timers are applied in exactly the order in
\* which they were enqueued: at every point the events applied so far,
\* followed by the events waiting in the channel, are the events sent so
\* far, in the order sent.  So no event overtakes an earlier one of another
\* class, and none is applied twice or dropped.
C27_AppliedInArrivalOrder == rt.applied \o rt.chan = rt.sent

\* events of two classes were applied while a third one waits
C27_Witness ==
    /\ Len(rt.applied) = 2
    /\ rt.applied[1] # rt.applied[2]
    /\ rt.chan # << >>
    /\ rt.chan[1] \notin {rt.applied[1], rt.applied[2]}

\* C30: each iteration of the loop applies at most one piece of work, one
\* event or one key press and never both, and a frame is drawn between any
\* two pieces of work: at most one piece of work was applied since the last
\* frame, and none between the frame and the select.
C30_OneWorkPerFrame ==
    /\ Len(rt.work) <= 1
    /\ rt.pc = "select" => rt.work = << >>

\* an event was applied, a second event and a key press had to wait for the
\* next frame
C30_Witness ==
    /\ rt.work = <<"event">>
    /\ rt.pc = "draw"
    /\ rt.chan # << >>

\* a key press was applied in an iteration in which an event was waiting
C30_WitnessKey ==
    /\ rt.work = <<"key">>
    /\ rt.pc = "draw"
    /\ rt.chan # << >>

\* a key quit: no frame follows it
C30_WitnessQuit ==
    /\ rt.work = <<"key">>
    /\ rt.pc = "done"

\* C28: at every point after the first accepted update, last_data_hash is the
\* fingerprint of the last accepted snapshot, the snapshot whose entities the
\* list holds.
C28_FingerprintOfHeld ==
    hist.ever_accepted
        => \E s \in Snapshots(domain) :
              /\ last_data_hash = compute_data_hash(domain, s)
              /\ Len(s) = Len(entities)
              /\ {s[i] : i \in 1..Len(s)} = {entities[i] : i \in 1..Len(entities)}

\* the sequence of identity keys of a snapshot
C29_Keys(d, s) == [i \in 1..Len(s) |-> Identity(d, s[i])]

\* C29: the fingerprint depends on the identity keys only: an update whose
\* snapshot has the same sequence of identity keys as the snapshot of the
\* previous update call, which was accepted, is a no-op: it is rejected as
\* unchanged and the entities stay as they are.
C29_IdentityOnlyFingerprint ==
    [][\A s \in Snapshots(domain) :
          (/\ last.op = "update"
           /\ last.res = "accepted"
           /\ C29_Keys(domain, s) = C29_Keys(domain, Unwrap(hist.prev_snap))
           /\ Update(s))
              => /\ last'.res = "unchanged"
                 /\ UNCHANGED <<entities, last_data_hash>>]_vars

\* the process list after a metrics poll: the same processes in the same
\* order, each with its pid, name and path
C31_SameProcesses ==
    /\ Len(entities') = Len(entities)
    /\ \A i \in 1..Len(entities) :
          /\ entities'[i].pid = entities[i].pid
          /\ entities'[i].name = entities[i].name
          /\ entities'[i].path = entities[i].path

\* C31: a data poll calls the snapshot sources of all three domains and
\* updates the list of each source that answered, whatever the current tab,
\* the modal and the search mode, and changes nothing of the App; a metrics
\* poll calls no source and changes only the metrics of the processes in the
\* process list (none added, removed or reordered; cursor, selection, filter,
\* sort, fingerprint and the other domains as they were); a tick changes no
\* state.
C31_EventEffects ==
    [][rt'.applied # rt.applied
          => /\ app' = app
             /\ rt'.applied[Len(rt'.applied)] = "PollData"
                   => /\ \A d \in Domains : \E ok \in BOOLEAN : <<d, ok>> \in ui'.fetch
                      /\ IF <<domain, TRUE>> \in ui'.fetch
                         THEN \E s \in AppSnapshots(domain) : Update(s)
                         ELSE UNCHANGED list_vars
             /\ rt'.applied[Len(rt'.applied)] = "MetricsTick"
                   => /\ ui'.fetch = {}
                      /\ UNCHANGED <<domain, list_state, selected, active_filter, sort_key,
                                     sort_order, last_data_hash, is_initial_load,
                                     last_navigation, now>>
                      /\ IF domain = "locker" THEN C31_SameProcesses
                         ELSE UNCHANGED <<entities, prev_cpu_times>>
             /\ rt'.applied[Len(rt'.applied)] = "Tick"
                   => /\ ui'.fetch = {}
                      /\ UNCHANGED list_vars]_vars

\* a data poll was applied under an open modal on another tab than the
\* list's, and loaded the list
C31_Witness ==
    /\ rt.work = <<"event">>
    /\ rt.applied[Len(rt.applied)] = "PollData"
    /\ IsSome(app.modal)
    /\ app.current_tab # domain
    /\ ui.fetch = {<<d, TRUE>> : d \in Domains}
    /\ entities # << >>

\* a data poll was applied in search mode, with a query typed
C31_WitnessSearch ==
    /\ rt.work = <<"event">>
    /\ rt.applied[Len(rt.applied)] = "PollData"
    /\ app.search_mode
    /\ app.search_query # << >>
    /\ entities # << >>

\* a metrics poll was applied and sampled the memory of a process
C31_WitnessMetrics ==
    /\ rt.work = <<"event">>
    /\ rt.applied[Len(rt.applied)] = "MetricsTick"
    /\ domain = "locker"
    /\ entities # << >>
    /\ entities[1].memory_mb > 0

\* a tick was applied on a loaded list
C31_WitnessTick ==
    /\ rt.work = <<"event">>
    /\ rt.applied[Len(rt.applied)] = "Tick"
    /\ entities # << >>

\* C34: a step of a timer producer changes nothing but the channel and the
\* producer itself: it appends its own event, and only while the receiver is
\* alive; the send of a producer after the receiver is gone fails and ends the
\* producer; an ended producer never runs again, so it never sends again.
C34_ProducersSendOrStop ==
    [][/\ rt'.alive \subseteq rt.alive
       /\ rt'.sent # rt.sent
             => /\ rt.pc # "closed"
                /\ rt'.sent = Append(rt.sent, rt'.sent[Len(rt'.sent)])
                /\ rt'.chan = Append(rt.chan, rt'.sent[Len(rt'.sent)])
                /\ rt'.sent[Len(rt'.sent)] \in rt.alive
                /\ rt'.alive = rt.alive
                /\ UNCHANGED <<list_vars, app, ui>>
       /\ \A class \in TimerClasses :
             (rt.pc = "closed" /\ Send(class))
                => /\ class \notin rt'.alive
                   /\ rt'.sent = rt.sent
                   /\ rt'.chan = rt.chan]_vars

\* run_app returned after the producers had sent events, and every producer
\* has ended on its failed send
C34_Witness ==
    /\ rt.pc = "closed"
    /\ rt.alive = {}
    /\ rt.sent # << >>

\* C32: a process whose displayed CPU value (the current sample, or the cached
\* one when the sample is zero) is positive still has a positive displayed CPU
\* value after any step that keeps it in the list, and the same for its
\* displayed memory value.
C32_MetricsStayPositive ==
    [][\A i \in 1..Len(entities), j \in 1..Len(entities') :
          entities'[j].pid = entities[i].pid
             => /\ CpuValue(entities[i]) > 0 => CpuValue(entities'[j]) > 0
                /\ MemoryValue(entities[i]) > 0 => MemoryValue(entities'[j]) > 0]_vars

C33_WitnessLeft ==
    /\ last.op = "update_metrics"
    /\ Len(entities) = 2
    /\ DOMAIN prev_cpu_times = {1, 3}
    /\ \E i \in 1..Len(entities) : entities[i].cpu_usage > 0

\* C35: whenever search mode is off, the cursor and the selected identity of
\* the list state agree: both are none, or the cursor is an index of the view
\* filtered by the persisted filter and the entity at that index of the view
\* has the selected identity.
C35_CursorAgreesWithSelection ==
    ~app.search_mode
       => \/ list_state = None /\ selected = None
          \/ /\ IsSome(list_state)
             /\ IsSome(selected)
             /\ IdentityAt(domain, entities,
                           get_filtered_indices(domain, entities, active_filter, << >>),
                           Unwrap(list_state)) = selected

\* C39: kill_process is called only by a step that handles 'y' or 'Y' with
\* the KillConfirmation modal open in an elevated application, and with the
\* pid held by the modal; the modal holds the same pid from the step that
\* opens it to the step that closes it, whatever happens to the lists in
\* between; the step that opens it is taken in an elevated application.
C39_KillOnlyConfirmedPid ==
    [][/\ (ui'.call # None /\ ui'.call[1].fn = "kill_process")
             => /\ app.is_elevated
                /\ ModalKind(app.modal) = "KillConfirmation"
                /\ IsChar(ui'.key, {121, 89})
                /\ ui'.call[1].arg = <<Unwrap(app.modal).pid>>
                /\ app'.modal = None
       /\ (ModalKind(app.modal) = "KillConfirmation"
           /\ ModalKind(app'.modal) = "KillConfirmation")
             => app'.modal = app.modal
       /\ (ModalKind(app.modal) # "KillConfirmation"
           /\ ModalKind(app'.modal) = "KillConfirmation")
             => /\ app.is_elevated
                /\ IsChar(ui'.key, {75})
       /\ app'.is_elevated = app.is_elevated]_vars

\* kill_process was called with the pid the modal was opened for, after a
\* data poll had removed that process from the list under the open modal
C39_Witness ==
    /\ ui.call # None
    /\ ui.call[1].fn = "kill_process"
    /\ ~ui.call[1].ok
    /\ ui.call[1].arg = <<1>>
    /\ domain = "locker"
    /\ entities # << >>
    /\ \A i \in 1..Len(entities) : entities[i].pid # 1

\* kill_process was called for a process picked in the finder's results
C39_WitnessFinder ==
    /\ ui.call # None
    /\ ui.call[1].fn = "kill_process"
    /\ app.current_tab # "locker"

\* C40: in every reachable state search mode is off while a modal is open,
\* the search query is empty while search mode is off, and the finder's input
\* mode flag is off unless the HandleSearch modal is open.
C40_OneInputMode ==
    /\ ~(app.search_mode /\ IsSome(app.modal))
    /\ app.search_query # << >> => app.search_mode
    /\ app.handle_search_input_mode => ModalKind(app.modal) = "HandleSearch"

\* search mode is on with a typed query, on a list filtered by an earlier
\* search
C40_Witness ==
    /\ app.search_mode
    /\ app.search_query # << >>
    /\ IsSome(active_filter)

\* the finder is open in its input field with a typed path, on a list
\* filtered by an earlier search
C40_WitnessFinder ==
    /\ app.handle_search_input_mode
    /\ ModalKind(app.modal) = "HandleSearch"
    /\ Unwrap(app.modal).input # << >>
    /\ IsSome(active_filter)

\* the kill confirmation is open for a process picked in the finder, whose
\* input field had been used
C40_WitnessKill ==
    /\ ModalKind(app.modal) = "KillConfirmation"
    /\ app.current_tab # "locker"
    /\ ~app.handle_search_input_mode

\* C37: after an accepted update that follows a navigation under the typed
\* query "B" (search mode on), if the selected identity is shown in the view
\* filtered by that query, the cursor is its index in that view, so the
\* entity under the cursor of the displayed view is the selected one.
C37_CursorInTransientView ==
    [][(last.tq /\ last'.op = "update" /\ last'.res = "accepted" /\ IsSome(selected'))
          => (Position(domain, entities',
                       get_filtered_indices(domain, entities', active_filter', <<66>>),
                       Unwrap(selected'), 0)
                < Len(get_filtered_indices(domain, entities', active_filter', <<66>>))
              => list_state'
                   = Some(Position(domain, entities',
                                   get_filtered_indices(domain, entities', active_filter',
                                                        <<66>>),
                                   Unwrap(selected'), 0)))]_vars

\* C38: for the connection list, an update whose snapshot differs in the
\* identity keys (pid, local address and port, remote address and port) from
\* the snapshot of the previous update call, which was accepted, is not
\* rejected as unchanged.
C38_ConnectionKeyChangeSeen ==
    [][\A s \in Snapshots(domain) :
          (/\ domain = "nexus"
           /\ last.op = "update"
           /\ last.res = "accepted"
           /\ C29_Keys(domain, s) # C29_Keys(domain, Unwrap(hist.prev_snap))
           /\ Update(s))
              => last'.res # "unchanged"]_vars

\* C36: once the source answers the same snapshot on every data poll, the
\* user navigates no more and the debounce window of the last navigation has
\* passed, the list eventually holds exactly the entities of that snapshot.
C36_Converges ==
    (IsSome(hist.steady) /\ now - last_navigation >= NAVIGATION_DEBOUNCE)
        ~> /\ IsSome(hist.steady)
           /\ Len(entities) = Len(Unwrap(hist.steady))
           /\ {entities[i] : i \in 1..Len(entities)}
                = {Unwrap(hist.steady)[i] : i \in 1..Len(Unwrap(hist.steady))}

====
